---- MODULE Spec2Model ----
(***************************************************************************)
(* Model of the WhatsApp FAQ bot (src/app.py): the one-time index load,    *)
(* the /chat request handler and the fuzzy FAQ matcher it calls; and of    *)
(* the index builder (src/build_index.py) that writes the index file.      *)
(*                                                                         *)
(* Text is a sequence of Unicode code points, so that the regular          *)
(* expressions, str.lower, str.strip and str.split of the source are       *)
(* computed character by character.  Scores are Python floats in the      *)
(* source; here they are fixed-point integers counting millionths, and     *)
(* every division rounds down.                                             *)
(***************************************************************************)
EXTENDS Integers, Sequences, FiniteSets, TLC

VARIABLES index_file, search_index, req, corpus_file, builder, app, call

vars == <<index_file, search_index, req, corpus_file, builder, app, call>>

\* What a request handler of app.py leaves alone besides the index.
build_vars == <<corpus_file, builder, app, call>>

----------------------------------------------------------------------------
(* Characters and strings                                                  *)

\* Python's ASCII whitespace: \s of re, str.strip() and str.split().
IsSpace(c) == c \in {9, 10, 11, 12, 13, 28, 29, 30, 31, 32}

IsDigit(c) == c \in 48..57

IsAsciiAlpha(c) == c \in 65..90 \/ c \in 97..122

\* The range \u0900-\u097F of the regular expressions.
IsDevanagari(c) == c \in 2304..2431

\* \w of re on str: alphanumerics and underscore; in the Devanagari block
\* the letters and digits, not the combining signs.
IsWordChar(c) ==
    \/ IsAsciiAlpha(c) \/ IsDigit(c) \/ c = 95
    \/ c \in 2308..2361 \/ c = 2365 \/ c = 2384
    \/ c \in 2392..2401 \/ c \in 2406..2415 \/ c \in 2417..2431

\* str.lower() of one character (the Devanagari block has no case).
LowerChar(c) == IF c \in 65..90 THEN c + 32 ELSE c

Lower(t) == [i \in 1..Len(t) |-> LowerChar(t[i])]

RECURSIVE LStrip(_)
LStrip(t) == IF t # <<>> /\ IsSpace(Head(t)) THEN LStrip(Tail(t)) ELSE t

RECURSIVE RStrip(_)
RStrip(t) ==
    IF t # <<>> /\ IsSpace(t[Len(t)]) THEN RStrip(SubSeq(t, 1, Len(t) - 1)) ELSE t

\* str.strip()
Strip(t) == RStrip(LStrip(t))

\* The pieces of t between the characters marked in sep (sep[i] says that
\* t[i] is a separator); an empty piece is kept, as re.split keeps it.
RECURSIVE SplitAt(_, _, _, _)
SplitAt(t, sep, i, cur) ==
    IF i > Len(t) THEN <<cur>>
    ELSE IF sep[i]
         THEN <<cur>> \o SplitAt(t, sep, i + 1, <<>>)
         ELSE SplitAt(t, sep, i + 1, Append(cur, t[i]))

\* re.sub(r'\s+', ' ', t): every run of whitespace becomes one space.
RECURSIVE CollapseSpaces(_)
CollapseSpaces(t) ==
    IF t = <<>> THEN <<>>
    ELSE IF IsSpace(Head(t))
         THEN <<32>> \o CollapseSpaces(LStrip(t))
         ELSE <<Head(t)>> \o CollapseSpaces(Tail(t))

NonEmpty(words) == SelectSeq(words, LAMBDA w : w # <<>>)

\* str.split(): the maximal runs of non-whitespace characters.
Split(t) == NonEmpty(SplitAt(t, [i \in 1..Len(t) |-> IsSpace(t[i])], 1, <<>>))

\* x in s, for a list s
InSeq(x, s) == \E i \in 1..Len(s) : s[i] = x

\* sub in t, for strings
Contains(t, sub) ==
    \E i \in 0..(Len(t) - Len(sub)) : SubSeq(t, i + 1, i + Len(sub)) = sub

----------------------------------------------------------------------------
(* Configuration and module-level tables                                   *)

LANGUAGES == <<"en", "hi", "id", "hinglish">>

FUZZY_MATCH_THRESHOLD == 75

\* 0.3, in millionths like every score and every IDF weight of the model
MINIMUM_SCORE_THRESHOLD == 300000

ACTION_WEIGHT == 2

\* idf_scores.get(user_word, 0.1)
IDF_DEFAULT_EXACT == 100000

\* idf_scores.get(matched_keyword, 0.05)
IDF_DEFAULT_FUZZY == 50000

\* len(user_input) > 200
MAX_INPUT_LENGTH == 200

IRRELEVANT_TOPICS ==
    { <<99, 97, 114>> (* car *), <<98, 105, 107, 101>> (* bike *), <<116, 114, 117, 99, 107>> (* truck *), <<98, 105, 99, 121, 99, 108, 101>> (* bicycle *), <<115, 99, 111, 111, 116, 101, 114>> (* scooter *), <<116, 114, 97, 105, 110>> (* train *),
      <<97, 101, 114, 111, 112, 108, 97, 110, 101>> (* aeroplane *), <<97, 105, 114, 112, 108, 97, 110, 101>> (* airplane *), <<106, 101, 116>> (* jet *), <<98, 111, 97, 116>> (* boat *), <<115, 104, 105, 112>> (* ship *), <<118, 101, 104, 105, 99, 108, 101>> (* vehicle *),
      <<102, 114, 105, 100, 103, 101>> (* fridge *), <<114, 101, 102, 114, 105, 103, 101, 114, 97, 116, 111, 114>> (* refrigerator *), <<111, 118, 101, 110>> (* oven *), <<115, 116, 111, 118, 101>> (* stove *), <<102, 97, 110>> (* fan *), <<98, 117, 108, 98>> (* bulb *),
      <<97, 99>> (* ac *), <<99, 111, 111, 108, 101, 114>> (* cooler *), <<109, 105, 120, 101, 114>> (* mixer *), <<116, 111, 97, 115, 116, 101, 114>> (* toaster *), <<119, 97, 115, 104, 105, 110, 103>> (* washing *), <<109, 97, 99, 104, 105, 110, 101>> (* machine *),
      <<100, 111, 103>> (* dog *), <<99, 97, 116>> (* cat *), <<101, 108, 101, 112, 104, 97, 110, 116>> (* elephant *), <<104, 111, 114, 115, 101>> (* horse *), <<109, 111, 110, 107, 101, 121>> (* monkey *), <<116, 105, 103, 101, 114>> (* tiger *),
      <<108, 105, 111, 110>> (* lion *), <<103, 111, 97, 116>> (* goat *), <<99, 111, 119>> (* cow *), <<98, 105, 114, 100>> (* bird *), <<102, 105, 115, 104>> (* fish *),
      <<112, 105, 122, 122, 97>> (* pizza *), <<98, 117, 114, 103, 101, 114>> (* burger *), <<99, 97, 107, 101>> (* cake *), <<98, 114, 101, 97, 100>> (* bread *), <<109, 105, 108, 107>> (* milk *), <<97, 112, 112, 108, 101>> (* apple *),
      <<114, 105, 99, 101>> (* rice *), <<99, 104, 97, 112, 97, 116, 105>> (* chapati *), <<110, 111, 111, 100, 108, 101, 115>> (* noodles *), <<105, 99, 101, 99, 114, 101, 97, 109>> (* icecream *), <<102, 111, 111, 100>> (* food *), <<101, 97, 116>> (* eat *),
      <<106, 101, 97, 110, 115>> (* jeans *), <<115, 104, 105, 114, 116>> (* shirt *), <<106, 97, 99, 107, 101, 116>> (* jacket *), <<116, 115, 104, 105, 114, 116>> (* tshirt *), <<115, 97, 114, 101, 101>> (* saree *), <<107, 117, 114, 116, 97>> (* kurta *),
      <<115, 104, 111, 101, 115>> (* shoes *), <<99, 97, 112>> (* cap *), <<100, 114, 101, 115, 115>> (* dress *), <<99, 108, 111, 116, 104, 101, 115>> (* clothes *),
      <<114, 111, 97, 100>> (* road *), <<116, 114, 101, 101>> (* tree *), <<103, 105, 114, 108>> (* girl *), <<98, 111, 121>> (* boy *), <<107, 105, 100>> (* kid *), <<112, 101, 110>> (* pen *), <<98, 111, 116, 116, 108, 101>> (* bottle *),
      <<104, 111, 117, 115, 101>> (* house *), <<119, 97, 108, 108>> (* wall *), <<119, 101, 97, 116, 104, 101, 114>> (* weather *), <<116, 105, 109, 101>> (* time *), <<100, 97, 116, 101>> (* date *) }

\* The verbs (keys) of NONSENSE_FILTER; every verb has the same invalid
\* targets, the union of IRRELEVANT_TOPICS.
NONSENSE_FILTER ==
    { <<100, 111, 119, 110, 108, 111, 97, 100>> (* download *), <<115, 97, 118, 101>> (* save *), <<105, 110, 115, 116, 97, 108, 108>> (* install *), <<117, 112, 108, 111, 97, 100>> (* upload *), <<114, 101, 99, 111, 114, 100>> (* record *),
      <<115, 104, 97, 114, 101>> (* share *), <<115, 101, 110, 100>> (* send *), <<102, 111, 114, 119, 97, 114, 100>> (* forward *), <<98, 104, 101, 106>> (* bhej *) }

ACTION_KEYWORDS ==
    { <<100, 111, 119, 110, 108, 111, 97, 100>> (* download *), <<115, 97, 118, 101>> (* save *), <<115, 104, 97, 114, 101>> (* share *), <<115, 101, 110, 100>> (* send *), <<102, 111, 114, 119, 97, 114, 100>> (* forward *), <<98, 104, 101, 106>> (* bhej *),
      <<105, 110, 115, 116, 97, 108, 108>> (* install *), <<117, 112, 108, 111, 97, 100>> (* upload *), <<114, 101, 99, 111, 114, 100>> (* record *) }

\* The pairs <<key, value>> of HINGLISH_MAPPINGS.
HINGLISH_MAPPINGS ==
    { <<<<107, 101, 115, 101>> (* kese *), <<104, 111, 119>> (* how *)>>, <<<<107, 97, 105, 115, 101>> (* kaise *), <<104, 111, 119>> (* how *)>>, <<<<107, 97, 114, 117>> (* karu *), <<100, 111>> (* do *)>>,
      <<<<107, 97, 114, 111>> (* karo *), <<100, 111>> (* do *)>>, <<<<98, 104, 101, 106>> (* bhej *), <<115, 104, 97, 114, 101>> (* share *)>>, <<<<115, 104, 97, 114, 101>> (* share *), <<115, 104, 97, 114, 101>> (* share *)>>,
      <<<<115, 97, 118, 101>> (* save *), <<115, 97, 118, 101>> (* save *)>>, <<<<100, 111, 119, 110, 108, 111, 97, 100>> (* download *), <<115, 97, 118, 101>> (* save *)>>, <<<<107, 121, 117>> (* kyu *), <<119, 104, 121>> (* why *)>>,
      <<<<101, 116, 110, 97>> (* etna *), <<115, 111>> (* so *)>>, <<<<104, 97, 105>> (* hai *), <<105, 115>> (* is *)>>, <<<<110, 97, 104, 105>> (* nahi *), <<110, 111, 116>> (* not *)>>,
      <<<<104, 111>> (* ho *), <<98, 101>> (* be *)>>, <<<<116, 104, 97>> (* tha *), <<119, 97, 115>> (* was *)>>, <<<<109, 101, 105, 110>> (* mein *), <<105, 110>> (* in *)>>,
      <<<<112, 97, 114>> (* par *), <<111, 110>> (* on *)>>, <<<<115, 101>> (* se *), <<102, 114, 111, 109>> (* from *)>>, <<<<107, 111>> (* ko *), <<116, 111>> (* to *)>> }

\* hinglish_keywords of detect_language_safe
hinglish_keywords ==
    { <<107, 101, 115, 101>> (* kese *), <<107, 97, 105, 115, 101>> (* kaise *), <<107, 97, 114, 117>> (* karu *), <<107, 97, 114, 111>> (* karo *), <<98, 104, 101, 106>> (* bhej *), <<107, 121, 117>> (* kyu *), <<104, 97, 105>> (* hai *),
      <<101, 116, 110, 97>> (* etna *), <<110, 97, 104, 105>> (* nahi *), <<104, 111>> (* ho *), <<116, 104, 97>> (* tha *), <<109, 101, 105, 110>> (* mein *), <<112, 97, 114>> (* par *), <<115, 101>> (* se *), <<107, 111>> (* ko *),
      <<107, 121, 97>> (* kya *), <<97, 98, 104, 105>> (* abhi *), <<112, 104, 105, 114>> (* phir *), <<119, 97, 108, 97>> (* wala *), <<119, 97, 108, 105>> (* wali *), <<97, 117, 114>> (* aur *), <<121, 97>> (* ya *), <<116, 111, 104>> (* toh *) }

\* hinglish_specific_words of chat
hinglish_specific_words ==
    { <<107, 101, 115, 101>> (* kese *), <<107, 97, 105, 115, 101>> (* kaise *), <<107, 97, 114, 117>> (* karu *), <<107, 97, 114, 111>> (* karo *), <<98, 104, 101, 106>> (* bhej *), <<107, 121, 117>> (* kyu *), <<101, 116, 110, 97>> (* etna *),
      <<104, 97, 105>> (* hai *), <<110, 97, 104, 105>> (* nahi *), <<104, 111>> (* ho *), <<116, 104, 97>> (* tha *), <<109, 101, 105, 110>> (* mein *), <<112, 97, 114>> (* par *), <<115, 101>> (* se *), <<107, 111>> (* ko *),
      <<107, 121, 97>> (* kya *), <<97, 98, 104, 105>> (* abhi *), <<112, 104, 105, 114>> (* phir *), <<119, 97, 108, 97>> (* wala *), <<119, 97, 108, 105>> (* wali *), <<97, 117, 114>> (* aur *), <<121, 97>> (* ya *), <<116, 111, 104>> (* toh *) }

\* The index create_fallback_index() returns.  An answer text is kept as a
\* name: the handler only looks it up and passes it on.
create_fallback_index ==
    [ documents |-> <<
        [ keywords |-> << <<100, 111, 119, 110, 108, 111, 97, 100>> (* download *), <<115, 116, 97, 116, 117, 115>> (* status *), <<115, 97, 118, 101>> (* save *), <<119, 104, 97, 116, 115, 97, 112, 112>> (* whatsapp *), <<115, 116, 111, 114, 121>> (* story *) >>,
          answers |-> [ en |-> "To save a status: ...",
                        hi |-> "(hi) To save a status: ...",
                        hinglish |-> "Status save karne ke liye: ..." ] ],
        [ keywords |-> << <<115, 104, 97, 114, 101>> (* share *), <<115, 116, 97, 116, 117, 115>> (* status *), <<119, 104, 97, 116, 115, 97, 112, 112>> (* whatsapp *), <<115, 101, 110, 100>> (* send *), <<102, 111, 114, 119, 97, 114, 100>> (* forward *), <<98, 104, 101, 106>> (* bhej *) >>,
          answers |-> [ en |-> "To share a status: ...",
                        hi |-> "(hi) To share a status: ...",
                        hinglish |-> "Status share karne ke liye: ..." ] ],
        [ keywords |-> << <<112, 101, 114, 109, 105, 115, 115, 105, 111, 110>> (* permission *), <<115, 116, 111, 114, 97, 103, 101>> (* storage *), <<97, 99, 99, 101, 115, 115>> (* access *), <<97, 108, 108, 111, 119>> (* allow *), <<115, 101, 116, 116, 105, 110, 103, 115>> (* settings *) >>,
          answers |-> [ en |-> "If download isn't working, check permissions: ...",
                        hi |-> "(hi) If download isn't working, check permissions: ...",
                        hinglish |-> "Agar download nahi chal raha, permissions check karo: ..." ] ],
        [ keywords |-> << <<101, 114, 114, 111, 114>> (* error *), <<112, 114, 111, 98, 108, 101, 109>> (* problem *), <<110, 111, 116>> (* not *), <<119, 111, 114, 107, 105, 110, 103>> (* working *), <<105, 115, 115, 117, 101>> (* issue *), <<102, 97, 105, 108, 101, 100>> (* failed *) >>,
          answers |-> [ en |-> "Common issues: ...",
                        hi |-> "(hi) Common issues: ...",
                        hinglish |-> "Common problems: ..." ] ] >>,
      idf_scores |->
        ( <<100, 111, 119, 110, 108, 111, 97, 100>> (* download *) :> 800000 @@ <<115, 116, 97, 116, 117, 115>> (* status *) :> 900000 @@ <<115, 97, 118, 101>> (* save *) :> 700000 @@
          <<119, 104, 97, 116, 115, 97, 112, 112>> (* whatsapp *) :> 600000 @@ <<115, 104, 97, 114, 101>> (* share *) :> 800000 @@ <<115, 101, 110, 100>> (* send *) :> 700000 @@
          <<102, 111, 114, 119, 97, 114, 100>> (* forward *) :> 700000 @@ <<98, 104, 101, 106>> (* bhej *) :> 600000 @@ <<112, 101, 114, 109, 105, 115, 115, 105, 111, 110>> (* permission *) :> 800000 @@
          <<115, 116, 111, 114, 97, 103, 101>> (* storage *) :> 700000 @@ <<101, 114, 114, 111, 114>> (* error *) :> 600000 @@ <<112, 114, 111, 98, 108, 101, 109>> (* problem *) :> 600000 ) ]

----------------------------------------------------------------------------
(* normalize_and_tokenize_query                                            *)

\* The lookup in a table whose entry for 'save' reads "save": "download".
MapTokenSaveToDownload(token) ==
    IF token = <<115, 97, 118, 101>> (* save *) THEN <<100, 111, 119, 110, 108, 111, 97, 100>> (* download *)
    ELSE IF \E p \in HINGLISH_MAPPINGS : p[1] = token
    THEN (CHOOSE p \in HINGLISH_MAPPINGS : p[1] = token)[2]
    ELSE token

\* The tokens returned without the mapping of line 155.
MapTokenIdentity(token) == token

\* HINGLISH_MAPPINGS.get(token, token)
MapToken(token) ==
    IF \E p \in HINGLISH_MAPPINGS : p[1] = token
    THEN (CHOOSE p \in HINGLISH_MAPPINGS : p[1] = token)[2]
    ELSE token

\* A character the second re.sub keeps: [\w\s\u0900-\u097F?!.-]
IsQueryChar(c) ==
    IsWordChar(c) \/ IsSpace(c) \/ IsDevanagari(c) \/ c \in {63, 33, 46, 45}

\* text is a str here; chat() rejects every other value before the call.
normalize_and_tokenize_query(text) ==
    IF Len(Strip(text)) = 0 THEN <<>>
    ELSE LET lowered == Strip(Lower(text))
             spaced  == CollapseSpaces(lowered)
             cleaned == SelectSeq(spaced, IsQueryChar)
             tokens  == SelectSeq(Split(cleaned), LAMBDA word : Len(word) > 1)
         IN [i \in 1..Len(tokens) |-> MapToken(tokens[i])]

----------------------------------------------------------------------------
(* is_nonsensical_query                                                    *)

\* re.search(r'^[a-z]{1,3}$', t)
SpamShort(t) == Len(t) \in 1..3 /\ \A i \in 1..Len(t) : t[i] \in 97..122

\* re.search(r'^[0-9]+$', t)
SpamDigits(t) == Len(t) >= 1 /\ \A i \in 1..Len(t) : IsDigit(t[i])

\* re.search(r'(.)\1{4,}', t): one character, not a newline, five times in a row
SpamRepeated(t) ==
    \E i \in 1..(Len(t) - 4) :
        t[i] # 10 /\ \A j \in 1..4 : t[i + j] = t[i]

\* re.search(r'^[^a-zA-Z0-9\s]+$', t)
SpamSpecial(t) ==
    Len(t) >= 1 /\ \A i \in 1..Len(t) :
        ~IsAsciiAlpha(t[i]) /\ ~IsDigit(t[i]) /\ ~IsSpace(t[i])

SPAM_PATTERNS(t) == SpamShort(t) \/ SpamDigits(t) \/ SpamRepeated(t) \/ SpamSpecial(t)

is_nonsensical_query(text, tokens) ==
    \/ SPAM_PATTERNS(Lower(text))
    \/ Len(Strip(text)) < 3
    \/ \E verb \in NONSENSE_FILTER :
          InSeq(verb, tokens) /\ \E i \in 1..Len(tokens) : tokens[i] \in IRRELEVANT_TOPICS
    \/ Len(tokens) = 0

----------------------------------------------------------------------------
(* detect_language_safe                                                    *)

\* What langdetect.detect(text) can do: return the code of a supported
\* language, return another code, or raise LangDetectException.
DetectorOutcomes == {"en", "hi", "id", "fr", "raise"}

\* The heuristic of lines 180-198: Devanagari or a Hinglish keyword as a
\* substring, and between 20% and 80% of the words ASCII-alphabetic.
HinglishHeuristic(text) ==
    LET text_lower     == Lower(text)
        has_devanagari == \E i \in 1..Len(text) : IsDevanagari(text[i])
        has_hinglish   == \E keyword \in hinglish_keywords : Contains(text_lower, keyword)
        words          == Split(text_lower)
        english_words  == Len(SelectSeq(words,
                              LAMBDA word : \A i \in 1..Len(word) : word[i] \in 97..122))
        total_words    == Len(words)
    IN  /\ has_devanagari \/ has_hinglish
        /\ total_words > 0
        /\ 5 * english_words >= total_words
        /\ 5 * english_words <= 4 * total_words

\* The detector consulted before the heuristic of lines 180-198.
CallsDetectorBeforeHeuristic(text) == Len(Strip(text)) >= 3

\* TRUE when detect_language_safe(text) reaches the call detect(text).
CallsDetector(text) == Len(Strip(text)) >= 3 /\ ~HinglishHeuristic(text)

\* detect_language_safe returning whatever the detector returned (line 204
\* as `return detected`).
detect_language_safe_unfiltered(text, outcome) ==
    IF Len(Strip(text)) < 3 THEN "en"
    ELSE IF HinglishHeuristic(text) THEN "hinglish"
    ELSE IF outcome = "raise" THEN "en"
    ELSE outcome

\* The value detect_language_safe(text) returns when detect(text), if it is
\* called, does what `outcome` says.
detect_language_safe(text, outcome) ==
    IF Len(Strip(text)) < 3 THEN "en"
    ELSE IF HinglishHeuristic(text) THEN "hinglish"
    ELSE IF outcome = "raise" THEN "en"
    ELSE IF InSeq(outcome, LANGUAGES) THEN outcome
    ELSE "en"

----------------------------------------------------------------------------
(* rapidfuzz: fuzz.ratio and process.extractOne                            *)

Max(a, b) == IF a >= b THEN a ELSE b

\* One row of the longest-common-subsequence table: prev[k] and acc[k] hold
\* column k - 1 of the previous and of the current row.  (The test on v makes
\* TLC compute each entry when it is appended.)
RECURSIVE LcsRow(_, _, _, _, _)
LcsRow(prev, ch, b, j, acc) ==
    IF j > Len(b) THEN acc
    ELSE LET v == IF ch = b[j] THEN prev[j] + 1 ELSE Max(prev[j + 1], acc[j])
         IN IF v >= 0 THEN LcsRow(prev, ch, b, j + 1, Append(acc, v)) ELSE acc

RECURSIVE LcsRows(_, _, _, _)
LcsRows(a, b, i, prev) ==
    IF i > Len(a) THEN prev[Len(b) + 1]
    ELSE LET row == LcsRow(prev, a[i], b, 1, <<0>>)
         IN IF Len(row) > 0 THEN LcsRows(a, b, i + 1, row) ELSE 0

\* Length of the longest common subsequence of a and b.
LcsLength(a, b) == LcsRows(a, b, 1, [k \in 1..(Len(b) + 1) |-> 0])

\* fuzz.ratio(a, b) is the normalized Indel similarity in percent,
\* 100 * 2 * lcs / (len(a) + len(b)), and 100 for two empty strings.  It is
\* kept as the fraction num / den of ratio / 100.
fuzz_ratio(a, b) ==
    IF Len(a) + Len(b) = 0 THEN [num |-> 1, den |-> 1]
    ELSE [num |-> 2 * LcsLength(a, b), den |-> Len(a) + Len(b)]

RatioGreater(r, s) == r.num * s.den > s.num * r.den

\* process.extractOne(query, choices, scorer=fuzz.ratio), for a non-empty list
\* of choices: the first choice of the highest ratio, with that ratio.
extractOne(query, choices) ==
    LET ratios == [k \in 1..Len(choices) |-> fuzz_ratio(query, choices[k])]
        best   == CHOOSE k \in 1..Len(choices) :
                     /\ \A j \in 1..Len(choices) : ~RatioGreater(ratios[j], ratios[k])
                     /\ \A j \in 1..(k - 1) : RatioGreater(ratios[k], ratios[j])
    IN [choice |-> choices[best], score |-> ratios[best]]

----------------------------------------------------------------------------
(* find_best_match: the score of one document                              *)

\* search_index.get('documents', [])
Documents(index) == IF "documents" \in DOMAIN index THEN index.documents ELSE <<>>

\* search_index.get('idf_scores', {})
IdfScores(index) == IF "idf_scores" \in DOMAIN index THEN index.idf_scores ELSE <<>>

\* doc.get('keywords', [])
DocKeywords(doc) == IF "keywords" \in DOMAIN doc THEN doc.keywords ELSE <<>>

\* idf_scores.get(word, default), times ACTION_WEIGHT for an action keyword
KeywordImportance(idf_scores, word, default) ==
    LET importance == IF word \in DOMAIN idf_scores THEN idf_scores[word] ELSE default
    IN IF word \in ACTION_KEYWORDS THEN importance * ACTION_WEIGHT ELSE importance

\* The acceptance test without the threshold (if best_match: ...).
FuzzyAcceptedAny(ratio) == ratio.num >= 0

\* The acceptance test that lets only a ratio of 100 pass.
FuzzyAcceptedExactOnly(ratio) == ratio.num = ratio.den

\* best_match[1] >= FUZZY_MATCH_THRESHOLD
FuzzyAccepted(ratio) == 100 * ratio.num >= FUZZY_MATCH_THRESHOLD * ratio.den

\* The loop body with matched_keywords += 1 moved out of the test of line
\* 242: a rejected candidate is counted.
WordMatchCountsRejected(user_word, doc_keywords, idf_scores) ==
    IF InSeq(user_word, doc_keywords)
    THEN [score   |-> KeywordImportance(idf_scores, user_word, IDF_DEFAULT_EXACT),
          matched |-> 1]
    ELSE LET best_match == extractOne(user_word, doc_keywords)
         IN IF FuzzyAccepted(best_match.score)
            THEN LET keyword_importance ==
                         KeywordImportance(idf_scores, best_match.choice, IDF_DEFAULT_FUZZY)
                 IN [score   |-> (best_match.score.num * keyword_importance)
                                     \div best_match.score.den,
                     matched |-> 1]
            ELSE [score |-> 0, matched |-> 1]

\* What one query word adds to the document's score and to its count of
\* matched keywords (lines 234-249).
WordMatch(user_word, doc_keywords, idf_scores) ==
    IF InSeq(user_word, doc_keywords)
    THEN [score   |-> KeywordImportance(idf_scores, user_word, IDF_DEFAULT_EXACT),
          matched |-> 1]
    ELSE LET best_match == extractOne(user_word, doc_keywords)
         IN IF FuzzyAccepted(best_match.score)
            THEN LET keyword_importance ==
                         KeywordImportance(idf_scores, best_match.choice, IDF_DEFAULT_FUZZY)
                 \* fuzzy_score = (best_match[1] / 100) * keyword_importance
                 IN [score   |-> (best_match.score.num * keyword_importance)
                                     \div best_match.score.den,
                     matched |-> 1]
            ELSE [score |-> 0, matched |-> 0]

\* The loop of lines 233-249 over the query words from position i on.
RECURSIVE SumMatches(_, _, _, _)
SumMatches(user_keywords, doc_keywords, idf_scores, i) ==
    IF i > Len(user_keywords) THEN [score |-> 0, matched |-> 0]
    ELSE LET m    == WordMatch(user_keywords[i], doc_keywords, idf_scores)
             rest == SumMatches(user_keywords, doc_keywords, idf_scores, i + 1)
         IN [score |-> m.score + rest.score, matched |-> m.matched + rest.matched]

\* matched_keywords of a document with keywords, after the loop of lines
\* 233-249.
DocMatched(doc_keywords, user_keywords, idf_scores) ==
    SumMatches(user_keywords, doc_keywords, idf_scores, 1).matched

\* current_doc_score of a document with keywords, after the coverage bonus
\* current_doc_score *= 1 + (matched_keywords - 1) * 0.2  (lines 230-252).
DocScore(doc_keywords, user_keywords, idf_scores) ==
    LET total == SumMatches(user_keywords, doc_keywords, idf_scores, 1)
    IN IF total.matched > 0
       THEN (total.score * (5 + (total.matched - 1))) \div 5
       ELSE total.score

----------------------------------------------------------------------------
(* The index file and load_search_index                                    *)

\* A document list exercising the lookups of the handler: a document without
\* keywords, an empty answer, no English answer, no 'answers' key, and an
\* 'answers' value that is a JSON list instead of an object.
CustomIndex ==
    [ documents |-> <<
        [ keywords |-> <<>>,
          answers |-> [ en |-> "Answer of the document without keywords" ] ],
        [ keywords |-> << <<115, 116, 97, 116, 117, 115>> (* status *), <<117, 112, 100, 97, 116, 101>> (* update *) >>,
          answers |-> [ en |-> "", hi |-> "(hi) Status answer" ] ],
        [ keywords |-> << <<115, 104, 97, 114, 101>> (* share *) >>,
          answers |-> [ hi |-> "(hi) Share answer" ] ],
        [ keywords |-> << <<115, 116, 111, 114, 97, 103, 101>> (* storage *) >> ],
        [ keywords |-> << <<101, 114, 114, 111, 114>> (* error *) >>,
          answers_type |-> "list",
          answers |-> << "Error answer" >> ] >>,
      idf_scores |-> ( <<115, 116, 97, 116, 117, 115>> (* status *) :> 900000 @@ <<115, 104, 97, 114, 101>> (* share *) :> 800000 @@
                      <<115, 116, 111, 114, 97, 103, 101>> (* storage *) :> 700000 @@ <<101, 114, 114, 111, 114>> (* error *) :> 600000 ) ]

\* An index for the acceptance boundary and for ties: a document whose only
\* keyword weighs just less than MINIMUM_SCORE_THRESHOLD, two documents with
\* the same keyword weighing exactly the threshold, and a later document
\* that shares the keyword and has one more.
EdgeIndex ==
    [ documents |-> <<
        [ keywords |-> << <<117, 112, 100, 97, 116, 101>> (* update *) >>,
          answers |-> [ en |-> "Update answer" ] ],
        [ keywords |-> << <<115, 116, 97, 116, 117, 115>> (* status *) >>,
          answers |-> [ en |-> "First status answer" ] ],
        [ keywords |-> << <<115, 116, 97, 116, 117, 115>> (* status *) >>,
          answers |-> [ en |-> "Second status answer" ] ],
        [ keywords |-> << <<115, 104, 97, 114, 101>> (* share *), <<115, 116, 97, 116, 117, 115>> (* status *) >>,
          answers |-> [ en |-> "Share status answer" ] ] >>,
      idf_scores |-> ( <<117, 112, 100, 97, 116, 101>> (* update *) :> 299999 @@ <<115, 116, 97, 116, 117, 115>> (* status *) :> 300000 @@
                      <<115, 104, 97, 114, 101>> (* share *) :> 300000 ) ]

\* What build_index.py writes for an empty corpus: one list per language, no
\* 'documents' key.
BuilderOutput == [ en |-> <<>>, hi |-> <<>>, id |-> <<>> ]

\* A JSON object whose 'documents' value is null: it has no len().
NullDocuments == [ documents |-> <<>>, documents_type |-> "null" ]

IndexFile(exists, readable, parses, is_dict, obj) ==
    [ exists |-> exists, readable |-> readable, parses |-> parses,
      is_dict |-> is_dict, obj |-> obj ]

\* The states of the file INDEX_FILE at process start: absent, unreadable,
\* not JSON, a JSON value that is no object, an object without 'documents',
\* an object whose 'documents' is null, a valid index.
IndexFiles ==
    { IndexFile(FALSE, FALSE, FALSE, FALSE, BuilderOutput),
      IndexFile(TRUE,  FALSE, FALSE, FALSE, BuilderOutput),
      IndexFile(TRUE,  TRUE,  FALSE, FALSE, BuilderOutput),
      IndexFile(TRUE,  TRUE,  TRUE,  FALSE, BuilderOutput),
      IndexFile(TRUE,  TRUE,  TRUE,  TRUE,  BuilderOutput),
      IndexFile(TRUE,  TRUE,  TRUE,  TRUE,  NullDocuments),
      IndexFile(TRUE,  TRUE,  TRUE,  TRUE,  CustomIndex),
      IndexFile(TRUE,  TRUE,  TRUE,  TRUE,  EdgeIndex) }

Return(value) == [ raised |-> FALSE, value |-> value ]

Raise(exception) == [ raised |-> TRUE, value |-> exception ]

\* The try block completing a file that lacks 'documents' from the built-in
\* index instead of discarding it.
LoadTryMerging(file) ==
    IF ~file.exists THEN Return(create_fallback_index)
    ELSE IF ~file.readable THEN Raise("OSError")
    ELSE IF ~file.parses THEN Raise("JSONDecodeError")
    ELSE IF ~file.is_dict THEN Return(create_fallback_index)
    ELSE IF "documents" \notin DOMAIN file.obj
         THEN Return(file.obj @@ create_fallback_index)
    ELSE IF "documents_type" \in DOMAIN file.obj THEN Raise("TypeError")
    ELSE Return(file.obj)

\* The try block of load_search_index (lines 25-37): open() raises for a file
\* that cannot be read, json.load() for text that is not JSON, and len() in
\* the log line for a 'documents' value without a length.
LoadTry(file) ==
    IF ~file.exists THEN Return(create_fallback_index)
    ELSE IF ~file.readable THEN Raise("OSError")
    ELSE IF ~file.parses THEN Raise("JSONDecodeError")
    ELSE IF ~file.is_dict \/ "documents" \notin DOMAIN file.obj
         THEN Return(create_fallback_index)
    ELSE IF "documents_type" \in DOMAIN file.obj THEN Raise("TypeError")
    ELSE Return(file.obj)

\* load_search_index: both except clauses (lines 39-44) return the fallback.
load_search_index(file) ==
    LET result == LoadTry(file)
    IN IF result.raised THEN create_fallback_index ELSE result.value

----------------------------------------------------------------------------
(* build_index.py: the index builder                                       *)

\* A JSON value found where the corpus should hold a text.
Str(text) == [ type |-> "str", text |-> text ]

None == [ type |-> "NoneType", text |-> <<>> ]

Number == [ type |-> "int", text |-> <<>> ]

List == [ type |-> "list", text |-> <<>> ]

\* LANGUAGES of build_index.py, in the order of the inner loop.
BUILDER_LANGUAGES == << "en", "hi", "id" >>

\* The Hindi words are ek, men, hai, ki, main, yah, se, kya, kaise, kyon,
\* mera, mere.
STOP_WORDS ==
    [ en |-> { <<97>> (* a *), <<97, 110>> (* an *), <<116, 104, 101>> (* the *), <<105, 115>> (* is *), <<105, 110>> (* in *), <<105, 116>> (* it *), <<105>> (* i *), <<116, 111>> (* to *),
               <<102, 111, 114>> (* for *), <<111, 102>> (* of *), <<104, 111, 119>> (* how *), <<100, 111>> (* do *), <<99, 97, 110>> (* can *), <<119, 104, 97, 116>> (* what *), <<119, 104, 121>> (* why *), <<109, 121>> (* my *) },
      hi |-> { <<2319, 2325>>, <<2350, 2375, 2306>>, <<2361, 2376>>, <<2325, 2368>>, <<2350, 2376, 2306>>, <<2351, 2361>>,
               <<2360, 2375>>, <<2325, 2381, 2351, 2366>>, <<2325, 2376, 2360, 2375>>, <<2325, 2381, 2351, 2379, 2306>>, <<2350, 2375, 2352, 2366>>, <<2350, 2375, 2352, 2375>> },
      id |-> { <<100, 105>> (* di *), <<107, 101>> (* ke *), <<100, 97, 114, 105>> (* dari *), <<100, 97, 110>> (* dan *), <<105, 110, 105>> (* ini *), <<105, 116, 117>> (* itu *), <<115, 97, 121, 97>> (* saya *),
               <<117, 110, 116, 117, 107>> (* untuk *), <<98, 97, 103, 97, 105, 109, 97, 110, 97>> (* bagaimana *), <<97, 112, 97>> (* apa *), <<107, 101, 110, 97, 112, 97>> (* kenapa *), <<98, 105, 115, 97>> (* bisa *) } ]

\* A character re.sub keeps in build_index.py: [\w\s\u0900-\u097F]
IsBuilderChar(c) == IsWordChar(c) \/ IsSpace(c) \/ IsDevanagari(c)

\* normalize_and_tokenize without the filter of line 28.
normalize_and_tokenize_keeping_stop_words(text, lang) ==
    IF text.type # "str" THEN <<>>
    ELSE LET lowered == Lower(text.text)
             cleaned == SelectSeq(lowered, IsBuilderChar)
         IN Split(cleaned)

\* normalize_and_tokenize(text, lang) of build_index.py
normalize_and_tokenize(text, lang) ==
    IF text.type # "str" THEN <<>>
    ELSE LET lowered    == Lower(text.text)
             cleaned    == SelectSeq(lowered, IsBuilderChar)
             words      == Split(cleaned)
             stop_words == IF lang \in DOMAIN STOP_WORDS THEN STOP_WORDS[lang] ELSE {}
         IN SelectSeq(words, LAMBDA word : word \notin stop_words)

\* A corpus entry with question, answer and English paraphrases.
FaqShare ==
    [ question |-> [ en |-> Str(<<72, 111, 119, 32, 116, 111, 32, 115, 104, 97, 114, 101, 32, 97, 32, 115, 116, 97, 116, 117, 115, 63>> (* How to share a status? *)),
                     hi |-> Str(<<2360, 2381, 2335, 2375, 2335, 2360, 32, 2358, 2375, 2351, 2352, 32, 2325, 2376, 2360, 2375, 63>>), (* status share kaise? *)
                     id |-> Str(<<66, 97, 103, 97, 105, 109, 97, 110, 97, 32, 98, 101, 114, 98, 97, 103, 105, 32, 115, 116, 97, 116, 117, 115, 63>> (* Bagaimana berbagi status? *)) ],
      answer |-> [ en |-> "Open the status and tap Share.",
                   hi |-> "(hi) Open the status and tap Share.",
                   id |-> "(id) Open the status and tap Share." ],
      paraphrases |-> [ en |-> << Str(<<83, 104, 97, 114, 101, 32, 115, 116, 97, 116, 117, 115>> (* Share status *)) >> ] ]

\* A well-formed entry whose questions hold stop words only; no paraphrases.
FaqStopWords ==
    [ question |-> [ en |-> Str(<<72, 111, 119, 32, 99, 97, 110, 32, 73, 32, 100, 111, 32, 105, 116, 63>> (* How can I do it? *)),
                     hi |-> Str(<<2351, 2361, 32, 2325, 2381, 2351, 2366, 32, 2361, 2376, 63>>), (* yah kya hai? *)
                     id |-> Str(<<65, 112, 97, 32, 105, 110, 105, 63>> (* Apa ini? *)) ],
      answer |-> [ en |-> "Follow the steps in the app.",
                   hi |-> "(hi) Follow the steps in the app.",
                   id |-> "(id) Follow the steps in the app." ] ]

\* An entry whose question has no 'id' text.
FaqNoQuestionId ==
    [ question |-> [ en |-> Str(<<87, 104, 121, 32, 105, 115, 32, 105, 116, 32, 110, 111, 116, 32, 115, 97, 118, 101, 100, 63>> (* Why is it not saved? *)),
                     hi |-> Str(<<2360, 2375, 2357, 32, 2325, 2381, 2351, 2379, 2306, 32, 2344, 2361, 2368, 2306, 63>>) (* save kyon nahin? *) ],
      answer |-> [ en |-> "Check the storage permission.",
                   hi |-> "(hi) Check the storage permission.",
                   id |-> "(id) Check the storage permission." ] ]

\* An entry whose answer has no 'hi' text, and whose paraphrases hold values
\* that are no texts.
FaqNoAnswerHi ==
    [ question |-> [ en |-> Str(<<83, 116, 97, 116, 117, 115, 32, 32, 83, 97, 118, 101, 114, 33>> (* Status  Saver! *)),
                     hi |-> Str(<<2360, 2381, 2335, 2375, 2335, 2360>>), (* status *)
                     id |-> Str(<<115, 116, 97, 116, 117, 115>> (* status *)) ],
      answer |-> [ en |-> "It saves statuses.", id |-> "(id) It saves statuses." ],
      paraphrases |-> [ en |-> << None, Number, List >> ] ]

CorpusFile(exists, parses, faqs) ==
    [ exists |-> exists, parses |-> parses, faqs |-> faqs ]

\* The states of FAQ_JSON_FILE: absent, not JSON, an empty list, a
\* well-formed corpus, and corpora with an entry that lacks a language.
CorpusFiles ==
    { CorpusFile(FALSE, FALSE, <<>>),
      CorpusFile(TRUE,  FALSE, <<>>),
      CorpusFile(TRUE,  TRUE,  <<>>),
      CorpusFile(TRUE,  TRUE,  << FaqShare, FaqStopWords >>),
      CorpusFile(TRUE,  TRUE,  << FaqShare, FaqNoQuestionId >>),
      CorpusFile(TRUE,  TRUE,  << FaqNoAnswerHi >>) }

\* faq_item.get('paraphrases', {}).get(lang, [])
Paraphrases(faq_item, lang) ==
    IF "paraphrases" \in DOMAIN faq_item /\ lang \in DOMAIN faq_item.paraphrases
    THEN faq_item.paraphrases[lang]
    ELSE <<>>

\* The set built by keywords.update(...) over all_phrases.
KeywordSet(all_phrases, lang) ==
    UNION { { normalize_and_tokenize(all_phrases[k], lang)[n] :
                n \in 1..Len(normalize_and_tokenize(all_phrases[k], lang)) } :
            k \in 1..Len(all_phrases) }

\* list(keywords): the elements of the set in an order the build does not fix
\* (the iteration order of a set of str changes with the hash seed).
ListOfSet(S) ==
    { order \in [1..Cardinality(S) -> S] :
        \A i, j \in 1..Cardinality(S) : i # j => order[i] # order[j] }

\* The process is not running (the specifications of the server alone).
BuilderOff ==
    [ pc |-> "off", faqs |-> <<>>, i |-> 0, l |-> 0, search_data |-> BuilderOutput,
      reported |-> "", index_before |-> IndexFile(FALSE, FALSE, FALSE, FALSE, BuilderOutput) ]

\* The process at the start of __main__, with the index file as it finds it.
BuilderStart(file) == [ BuilderOff EXCEPT !.pc = "start", !.index_before = file ]

\* Lines 34-42: read the corpus.  A missing file is logged as fatal and the
\* process exits; any other exception of open() or json.load() is not caught
\* and ends the process with a traceback.
BuildRead ==
    /\ builder.pc = "start"
    /\ builder' =
          IF ~corpus_file.exists
          THEN [builder EXCEPT !.pc = "exited", !.reported = "FATAL: not found"]
          ELSE IF ~corpus_file.parses
          THEN [builder EXCEPT !.pc = "crashed", !.reported = "JSONDecodeError"]
          ELSE [builder EXCEPT !.pc = "loop", !.faqs = corpus_file.faqs,
                               !.i = 1, !.l = 1, !.search_data = BuilderOutput]
    /\ UNCHANGED <<index_file, search_index, req, corpus_file, app, call>>

\* The pass of the inner loop with the index file rewritten after every
\* document (json.dump inside the loop).
BuildEntryDumping ==
    /\ builder.pc = "loop"
    /\ builder.i <= Len(builder.faqs)
    /\ LET faq_item == builder.faqs[builder.i]
           lang     == BUILDER_LANGUAGES[builder.l]
       IN IF \/ "question" \notin DOMAIN faq_item
             \/ lang \notin DOMAIN faq_item.question
             \/ "answer" \notin DOMAIN faq_item
             \/ lang \notin DOMAIN faq_item.answer
          THEN /\ builder' = [builder EXCEPT !.pc = "crashed", !.reported = "KeyError"]
               /\ UNCHANGED index_file
          ELSE LET original_question == faq_item.question[lang]
                   answer      == faq_item.answer[lang]
                   all_phrases == <<original_question>> \o Paraphrases(faq_item, lang)
                   last        == builder.l = Len(BUILDER_LANGUAGES)
               IN \E keywords \in ListOfSet(KeywordSet(all_phrases, lang)) :
                     /\ builder' =
                          [builder EXCEPT
                             !.search_data[lang] =
                                 Append(@, [ question |-> original_question,
                                             answer   |-> answer,
                                             keywords |-> keywords ]),
                             !.l = IF last THEN 1 ELSE builder.l + 1,
                             !.i = IF last THEN builder.i + 1 ELSE builder.i]
                     /\ index_file' = IndexFile(TRUE, TRUE, TRUE, TRUE, builder'.search_data)
    /\ UNCHANGED <<search_index, req, corpus_file, app, call>>

\* Lines 45-61: one pass of the inner loop, for faq_item and lang.  A missing
\* key raises KeyError, which nothing catches.
BuildEntry ==
    /\ builder.pc = "loop"
    /\ builder.i <= Len(builder.faqs)
    /\ LET faq_item == builder.faqs[builder.i]
           lang     == BUILDER_LANGUAGES[builder.l]
       IN IF \/ "question" \notin DOMAIN faq_item
             \/ lang \notin DOMAIN faq_item.question
             \/ "answer" \notin DOMAIN faq_item
             \/ lang \notin DOMAIN faq_item.answer
          THEN builder' = [builder EXCEPT !.pc = "crashed", !.reported = "KeyError"]
          ELSE LET original_question == faq_item.question[lang]
                   answer      == faq_item.answer[lang]
                   all_phrases == <<original_question>> \o Paraphrases(faq_item, lang)
                   last        == builder.l = Len(BUILDER_LANGUAGES)
               IN \E keywords \in ListOfSet(KeywordSet(all_phrases, lang)) :
                     builder' =
                        [builder EXCEPT
                           !.search_data[lang] =
                               Append(@, [ question |-> original_question,
                                           answer   |-> answer,
                                           keywords |-> keywords ]),
                           !.l = IF last THEN 1 ELSE builder.l + 1,
                           !.i = IF last THEN builder.i + 1 ELSE builder.i]
    /\ UNCHANGED <<index_file, search_index, req, corpus_file, app, call>>

\* Line 64: open(OUTPUT_INDEX_FILE, 'w') creates or empties the file.
BuildOpenOutput ==
    /\ builder.pc = "loop"
    /\ builder.i > Len(builder.faqs)
    /\ index_file' = IndexFile(TRUE, TRUE, FALSE, FALSE, BuilderOutput)
    /\ builder' = [builder EXCEPT !.pc = "dump"]
    /\ UNCHANGED <<search_index, req, corpus_file, app, call>>

\* Line 65: json.dump(search_data, f_out) and the close of the file.
BuildDump ==
    /\ builder.pc = "dump"
    /\ index_file' = IndexFile(TRUE, TRUE, TRUE, TRUE, builder.search_data)
    /\ builder' = [builder EXCEPT !.pc = "done"]
    /\ UNCHANGED <<search_index, req, corpus_file, app, call>>

\* The server process: not started, or started from the file it found.
AppDown == [ up |-> FALSE, loaded_from |-> IndexFile(FALSE, FALSE, FALSE, FALSE, BuilderOutput) ]

AppUp(file) == [ up |-> TRUE, loaded_from |-> file ]

\* search_index before the module app.py is imported.
NotLoaded == [ loaded |-> FALSE ]

\* app.py line 90: search_index = load_search_index(), at import.
AppStart ==
    /\ ~app.up
    /\ search_index' = load_search_index(index_file)
    /\ app' = AppUp(index_file)
    /\ UNCHANGED <<index_file, req, corpus_file, builder, call>>

----------------------------------------------------------------------------
(* Requests                                                                *)

\* Concurrent request handlers (threads of the server).
NumHandlers == 2

Handlers == 1..NumHandlers

\* What request.get_json() yields: it raises ("malformed"), returns nothing
\* or an empty object ("none"), an object without 'message' ("no_message"),
\* or an object with a 'message' that is a str or is not.
Body(kind, is_str, text) == [kind |-> kind, is_str |-> is_str, text |-> text]

Message(text) == Body("message", TRUE, text)

LongText == [i \in 1..(MAX_INPUT_LENGTH + 1) |-> 113]

Messages ==
    { <<>>,
      <<32, 9, 32>>,
      LongText,
      <<2344, 2350, 2360, 2381, 2340, 2375>>, (* namaste, in Devanagari *)
      <<100, 111, 119, 110, 108, 111, 97, 100, 32, 99, 97, 114>> (* download car *),
      <<97, 115, 100, 107, 113, 119, 101, 32, 122, 120, 99, 113, 119, 101>> (* asdkqwe zxcqwe *),
      <<104, 111, 119, 32, 100, 111, 32, 73, 32, 100, 111, 119, 110, 108, 97, 111, 100, 32, 115, 116, 97, 116, 117, 115>> (* how do I downlaod status *),
      <<49, 50, 32, 51, 52>> (* 12 34 *),
      <<107, 121, 97, 32, 104, 97, 105, 32, 115, 116, 97, 116, 117, 115>> (* kya hai status *),
      <<115, 116, 97, 116, 117, 115, 32, 107, 97, 105, 115, 101, 32, 49, 50>> (* status kaise 12 *),
      <<83, 116, 97, 116, 117, 115>> (* Status *),
      <<115, 104, 97, 114, 101>> (* share *),
      <<115, 116, 111, 114, 97, 103, 101>> (* storage *),
      <<32, 101, 114, 114, 111, 114, 32>> (*  error  *),
      <<117, 112, 100, 97, 116, 101>> (* update *),
      <<115, 104, 97, 114, 101, 32, 115, 116, 97, 116, 117, 115>> (* share status *),
      <<115, 116, 97, 116, 117, 115, 32, 115, 116, 97, 116, 117, 115>> (* status status *),
      <<117, 112, 100, 97, 116, 101, 32, 117, 112, 100, 97, 116>> (* update updat *),
      <<107, 111, 32, 9733, 32, 9734, 32, 9733, 32, 9734, 32, 9733, 32, 9734>> (* 'ko' and six star symbols *) }

Bodies ==
    { Body("malformed", FALSE, <<>>), Body("none", FALSE, <<>>),
      Body("no_message", FALSE, <<>>), Body("message", FALSE, <<>>) }
    \cup { Message(text) : text \in Messages }

\* Fixed replies of chat()
MSG_INVALID   == "Please send a valid message."
MSG_NOT_TEXT  == "Please send a text message."
MSG_EMPTY     == "Please enter a question."
MSG_TOO_LONG  == "Please keep your question under 200 characters."
MSG_NONSENSE  == "I can help you with WhatsApp Status Saver questions. ..."
MSG_NO_ANSWER == "Sorry, no answer available in your language."
MSG_ERROR     == "Sorry, I encountered an error. Please try again later."

fallback_responses ==
    [ en |-> "I couldn't find a specific answer. Try asking about: ...",
      hi |-> "(hi) I couldn't find a specific answer. Try asking about: ...",
      hinglish |-> "Mujhe specific answer nahi mila. Try kariye: ..." ]

----------------------------------------------------------------------------
(* The normalizers, called on their own                                    *)

\* normalize_and_tokenize_query without the isinstance test of line 147:
\* text.strip() raises for a value that is no str.
normalize_and_tokenize_query_untyped(value) ==
    IF value.type # "str" THEN Raise("AttributeError")
    ELSE Return(normalize_and_tokenize_query(value.text))

\* normalize_and_tokenize_query for any argument: line 147 returns [] for a
\* value that is no str.
normalize_and_tokenize_query_any(value) ==
    IF value.type # "str" THEN Return(<<>>)
    ELSE Return(normalize_and_tokenize_query(value.text))

\* ' '.join(tokens)
RECURSIVE Join(_)
Join(tokens) ==
    IF tokens = <<>> THEN <<>>
    ELSE IF Len(tokens) = 1 THEN tokens[1]
    ELSE tokens[1] \o <<32>> \o Join(Tail(tokens))

\* The texts of the corpus entries.
CorpusTexts ==
    UNION { { faq.question[lang] : lang \in DOMAIN faq.question } :
            faq \in {FaqShare, FaqStopWords, FaqNoQuestionId, FaqNoAnswerHi} }
    \cup { FaqShare.paraphrases.en[1] }

\* The arguments the normalizers are called with: the messages that chat()
\* does not turn away for their length, the texts of the corpus and values
\* that are no texts.
NormalizerInputs ==
    { Str(text) : text \in Messages \ {LongText} } \cup CorpusTexts
    \cup { None, Number, List }

\* No call of a normalizer on its own is in progress.
NoCall ==
    [ fn |-> "none", arg |-> None, lang |-> "none", pass |-> 0,
      result |-> Return(<<>>), again |-> Return(<<>>), detector_called |-> FALSE ]

\* A call of normalize_and_tokenize_query(value).
CallQueryNormalizer ==
    /\ call.pass = 0
    /\ \E value \in NormalizerInputs :
          call' = [ NoCall EXCEPT !.fn = "normalize_and_tokenize_query", !.arg = value,
                                  !.pass = 1,
                                  !.result = normalize_and_tokenize_query_any(value) ]
    /\ UNCHANGED <<index_file, search_index, req, corpus_file, builder, app>>

\* A call of normalize_and_tokenize(value, lang).
CallBuilderNormalizer ==
    /\ call.pass = 0
    /\ \E value \in NormalizerInputs : \E l \in 1..Len(BUILDER_LANGUAGES) :
          call' = [ NoCall EXCEPT !.fn = "normalize_and_tokenize", !.arg = value,
                                  !.lang = BUILDER_LANGUAGES[l], !.pass = 1,
                                  !.result = Return(normalize_and_tokenize(value, BUILDER_LANGUAGES[l])) ]
    /\ UNCHANGED <<index_file, search_index, req, corpus_file, builder, app>>

\* The same normalizer called on its own output, joined with spaces.
CallAgain ==
    /\ call.pass = 1
    /\ ~call.result.raised
    /\ LET joined == Str(Join(call.result.value))
       IN call' = [ call EXCEPT
                      !.pass = 2,
                      !.again = IF call.fn = "normalize_and_tokenize_query"
                                THEN normalize_and_tokenize_query_any(joined)
                                ELSE Return(normalize_and_tokenize(joined, call.lang)) ]
    /\ UNCHANGED <<index_file, search_index, req, corpus_file, builder, app>>


----------------------------------------------------------------------------
(* The request handlers                                                    *)

\* A handler between requests.
IdleRequest ==
    [ pc |-> "idle", data |-> Body("none", FALSE, <<>>), user_input |-> <<>>,
      tokens |-> <<>>, detector_called |-> FALSE, detected |-> "none",
      reply_lang |-> "none", matcher_called |-> FALSE, user_keywords |-> <<>>,
      doc_i |-> 0, best_score |-> 0, best_match_doc |-> 0, best_doc |-> 0,
      current_doc_score |-> 0, matched_keywords |-> 0, detector_arg |-> <<>>,
      documents_read |-> FALSE,
      response |-> "", status |-> 0, returned_at |-> "none" ]

Init ==
    /\ index_file \in IndexFiles
    /\ search_index = load_search_index(index_file)
    /\ req = [h \in Handlers |-> IdleRequest]
    /\ corpus_file = CorpusFile(FALSE, FALSE, <<>>)
    /\ builder = BuilderOff
    /\ app = AppUp(index_file)
    /\ call = NoCall

----------------------------------------------------------------------------
(* chat(): the /chat request handler                                       *)

Reply(r, text, status, where) ==
    [r EXCEPT !.pc = "done", !.response = text, !.status = status, !.returned_at = where]

\* The except clause of chat() (lines 671-675)
ErrorReply(r) == Reply(r, MSG_ERROR, 500, "error")

\* The checks with the call of strip() left out.
ValidatedNoStrip(body) ==
    LET r          == [IdleRequest EXCEPT !.data = body]
        user_input == body.text
        tokens     == normalize_and_tokenize_query(user_input)
    IN  IF body.kind = "malformed" THEN ErrorReply(r)
        ELSE IF body.kind # "message" THEN Reply(r, MSG_INVALID, 400, "invalid")
        ELSE IF ~body.is_str THEN Reply(r, MSG_NOT_TEXT, 200, "not_text")
        ELSE IF user_input = <<>> THEN Reply(r, MSG_EMPTY, 200, "empty")
        ELSE IF Len(user_input) > MAX_INPUT_LENGTH THEN Reply(r, MSG_TOO_LONG, 200, "too_long")
        ELSE IF is_nonsensical_query(user_input, tokens)
             THEN Reply([r EXCEPT !.user_input = user_input, !.tokens = tokens],
                        MSG_NONSENSE, 200, "nonsense")
        ELSE [r EXCEPT !.pc = "detect", !.user_input = user_input, !.tokens = tokens]

\* The checks with the nonsense filter run before the length check (the
\* tokens of a text over the length limit are left out of the record).
ValidatedNonsenseFirst(body) ==
    LET r          == [IdleRequest EXCEPT !.data = body]
        user_input == Strip(body.text)
        tokens     == normalize_and_tokenize_query(user_input)
    IN  IF body.kind = "malformed" THEN ErrorReply(r)
        ELSE IF body.kind # "message" THEN Reply(r, MSG_INVALID, 400, "invalid")
        ELSE IF ~body.is_str THEN Reply(r, MSG_NOT_TEXT, 200, "not_text")
        ELSE IF user_input = <<>> THEN Reply(r, MSG_EMPTY, 200, "empty")
        ELSE IF is_nonsensical_query(user_input, tokens)
             THEN Reply([r EXCEPT !.user_input = user_input,
                                  !.tokens = IF Len(user_input) > MAX_INPUT_LENGTH
                                             THEN <<>> ELSE tokens],
                        MSG_NONSENSE, 200, "nonsense")
        ELSE IF Len(user_input) > MAX_INPUT_LENGTH THEN Reply(r, MSG_TOO_LONG, 200, "too_long")
        ELSE [r EXCEPT !.pc = "detect", !.user_input = user_input, !.tokens = tokens]

\* Lines 617-639: a request arrives; get_json and the checks before
\* language detection.
Validated(body) ==
    LET r          == [IdleRequest EXCEPT !.data = body]
        user_input == Strip(body.text)
        tokens     == normalize_and_tokenize_query(user_input)
    IN  IF body.kind = "malformed" THEN ErrorReply(r)
        ELSE IF body.kind # "message" THEN Reply(r, MSG_INVALID, 400, "invalid")
        ELSE IF ~body.is_str THEN Reply(r, MSG_NOT_TEXT, 200, "not_text")
        ELSE IF user_input = <<>> THEN Reply(r, MSG_EMPTY, 200, "empty")
        ELSE IF Len(user_input) > MAX_INPUT_LENGTH THEN Reply(r, MSG_TOO_LONG, 200, "too_long")
        ELSE IF is_nonsensical_query(user_input, tokens)
             THEN Reply([r EXCEPT !.user_input = user_input, !.tokens = tokens],
                        MSG_NONSENSE, 200, "nonsense")
        ELSE [r EXCEPT !.pc = "detect", !.user_input = user_input, !.tokens = tokens]

ChatValidate(h, body) ==
    /\ req[h].pc \in {"idle", "done"}
    /\ req' = [req EXCEPT ![h] = Validated(body)]
    /\ UNCHANGED <<index_file, search_index, build_vars>>

\* original_tokens of line 652: re.split(r'\W+', user_input), lowered,
\* without the empty pieces.
OriginalTokens(user_input) ==
    LET pieces == SplitAt(user_input,
                          [i \in 1..Len(user_input) |-> ~IsWordChar(user_input[i])], 1, <<>>)
    IN [i \in 1..Len(NonEmpty(pieces)) |-> Lower(NonEmpty(pieces)[i])]

\* The condition of line 654 with a substring test (word in user_input.lower())
\* in place of the token test.
HinglishOverrideSubstring(user_input) ==
    \/ \E word \in hinglish_specific_words : Contains(Lower(user_input), word)
    \/ \E i \in 1..Len(user_input) : IsDevanagari(user_input[i])

\* The condition of line 654.
HinglishOverride(user_input) ==
    \/ \E i \in 1..Len(OriginalTokens(user_input)) :
          OriginalTokens(user_input)[i] \in hinglish_specific_words
    \/ \E i \in 1..Len(user_input) : IsDevanagari(user_input[i])

\* Line 649 with a detect_language_safe that lets the detector's exception
\* through: the except clause of chat() replies.
ChatDetectLanguageUnsafe(h, outcome) ==
    LET r     == req[h]
        calls == CallsDetector(r.user_input)
        r1    == [r EXCEPT !.detector_called = calls, !.detected = outcome,
                           !.detector_arg = IF calls THEN r.user_input ELSE <<>>]
    IN  /\ r.pc = "detect"
        /\ IF calls THEN outcome \in DetectorOutcomes ELSE outcome = "none"
        /\ req' = [req EXCEPT ![h] =
                     IF outcome = "raise" THEN ErrorReply(r1)
                     ELSE [r1 EXCEPT !.pc = "override",
                                     !.reply_lang = detect_language_safe(r.user_input, outcome)]]
        /\ UNCHANGED <<index_file, search_index, build_vars>>

\* Line 649: reply_lang = detect_language_safe(user_input).  `outcome` is
\* what detect() does when detect_language_safe calls it, and "none" when it
\* is not called.
ChatDetectLanguage(h, outcome) ==
    LET r     == req[h]
        calls == CallsDetector(r.user_input)
    IN  /\ r.pc = "detect"
        /\ IF calls THEN outcome \in DetectorOutcomes ELSE outcome = "none"
        /\ req' = [req EXCEPT ![h] =
                     [r EXCEPT !.pc = "override",
                               !.detector_called = calls,
                               !.detected = outcome,
                               !.detector_arg = IF calls THEN r.user_input ELSE <<>>,
                               !.reply_lang = detect_language_safe(r.user_input, outcome)]]
        /\ UNCHANGED <<index_file, search_index, build_vars>>

\* Lines 651-655: a Hinglish-specific word or a Devanagari character makes
\* the reply language 'hinglish'.
ChatHinglishOverride(h) ==
    LET r == req[h]
    IN  /\ r.pc = "override"
        /\ req' = [req EXCEPT ![h] =
                     [r EXCEPT !.pc = "match",
                               !.reply_lang = IF HinglishOverride(r.user_input)
                                              THEN "hinglish" ELSE r.reply_lang]]
        /\ UNCHANGED <<index_file, search_index, build_vars>>

\* The step below without the test of lines 212-213.
FindBestMatchBeginNoTokenCheck(h) ==
    LET r             == req[h]
        user_keywords == normalize_and_tokenize_query(r.user_input)
    IN  /\ r.pc = "match"
        /\ req' = [req EXCEPT ![h] =
                     IF Documents(search_index) = <<>>
                     THEN [r EXCEPT !.pc = "respond", !.matcher_called = TRUE,
                                    !.user_keywords = user_keywords,
                                    !.documents_read = TRUE, !.best_doc = 0]
                     ELSE [r EXCEPT !.pc = "scan", !.matcher_called = TRUE,
                                    !.user_keywords = user_keywords,
                                    !.documents_read = TRUE, !.doc_i = 1,
                                    !.best_score = 0, !.best_match_doc = 0]]
        /\ UNCHANGED <<index_file, search_index, build_vars>>

\* find_best_match, lines 211-223: tokenize; None at once without tokens,
\* and None without documents.
FindBestMatchBegin(h) ==
    LET r             == req[h]
        user_keywords == normalize_and_tokenize_query(r.user_input)
    IN  /\ r.pc = "match"
        /\ req' = [req EXCEPT ![h] =
                     IF user_keywords = <<>>
                     THEN [r EXCEPT !.pc = "respond", !.matcher_called = TRUE,
                                    !.user_keywords = user_keywords, !.best_doc = 0]
                     ELSE IF Documents(search_index) = <<>>
                     THEN [r EXCEPT !.pc = "respond", !.matcher_called = TRUE,
                                    !.user_keywords = user_keywords,
                                    !.documents_read = TRUE, !.best_doc = 0]
                     ELSE [r EXCEPT !.pc = "scan", !.matcher_called = TRUE,
                                    !.user_keywords = user_keywords,
                                    !.documents_read = TRUE, !.doc_i = 1,
                                    !.best_score = 0, !.best_match_doc = 0]]
        /\ UNCHANGED <<index_file, search_index, build_vars>>

\* The loop iteration with best_score kept in a module-level variable that
\* the handlers share: a document replaces the best one only if it beats the
\* best score of every request being matched.
FindBestMatchDocSharedBest(h) ==
    LET r           == req[h]
        doc         == Documents(search_index)[r.doc_i]
        idf_scores  == IdfScores(search_index)
        current_doc_score == DocScore(DocKeywords(doc), r.user_keywords, idf_scores)
        matched_keywords  == DocMatched(DocKeywords(doc), r.user_keywords, idf_scores)
        scored      == IF DocKeywords(doc) = <<>> THEN r
                       ELSE [r EXCEPT !.current_doc_score = current_doc_score,
                                      !.matched_keywords = matched_keywords]
        shared_best == CHOOSE b \in {req[g].best_score : g \in Handlers} :
                           \A g \in Handlers : req[g].best_score <= b
    IN  /\ r.pc = "scan"
        /\ r.doc_i <= Len(Documents(search_index))
        /\ req' = [req EXCEPT ![h] =
                     IF DocKeywords(doc) # <<>> /\ current_doc_score > shared_best
                     THEN [scored EXCEPT !.doc_i = r.doc_i + 1,
                                         !.best_score = current_doc_score,
                                         !.best_match_doc = r.doc_i]
                     ELSE [scored EXCEPT !.doc_i = r.doc_i + 1]]
        /\ UNCHANGED <<index_file, search_index, build_vars>>

\* The loop iteration with the score cached on the shared document
\* (doc['score'] = current_doc_score, after the test on doc_keywords), a
\* write to the index.
FindBestMatchDocCachingScore(h) ==
    LET r           == req[h]
        doc         == Documents(search_index)[r.doc_i]
        idf_scores  == IdfScores(search_index)
        current_doc_score == DocScore(DocKeywords(doc), r.user_keywords, idf_scores)
        matched_keywords  == DocMatched(DocKeywords(doc), r.user_keywords, idf_scores)
        scored      == IF DocKeywords(doc) = <<>> THEN r
                       ELSE [r EXCEPT !.current_doc_score = current_doc_score,
                                      !.matched_keywords = matched_keywords]
    IN  /\ r.pc = "scan"
        /\ r.doc_i <= Len(Documents(search_index))
        /\ req' = [req EXCEPT ![h] =
                     IF DocKeywords(doc) # <<>> /\ current_doc_score > r.best_score
                     THEN [scored EXCEPT !.doc_i = r.doc_i + 1,
                                         !.best_score = current_doc_score,
                                         !.best_match_doc = r.doc_i]
                     ELSE [scored EXCEPT !.doc_i = r.doc_i + 1]]
        /\ search_index' =
               IF DocKeywords(doc) = <<>> THEN search_index
               ELSE [search_index EXCEPT !.documents[r.doc_i] =
                        doc @@ ("score" :> current_doc_score)]
        /\ UNCHANGED <<index_file, build_vars>>

\* The loop iteration with 'current_doc_score >= best_score': a later
\* document with the same score replaces the best one.
FindBestMatchDocLastWins(h) ==
    LET r           == req[h]
        doc         == Documents(search_index)[r.doc_i]
        idf_scores  == IdfScores(search_index)
        current_doc_score == DocScore(DocKeywords(doc), r.user_keywords, idf_scores)
        matched_keywords  == DocMatched(DocKeywords(doc), r.user_keywords, idf_scores)
        scored      == IF DocKeywords(doc) = <<>> THEN r
                       ELSE [r EXCEPT !.current_doc_score = current_doc_score,
                                      !.matched_keywords = matched_keywords]
    IN  /\ r.pc = "scan"
        /\ r.doc_i <= Len(Documents(search_index))
        /\ req' = [req EXCEPT ![h] =
                     IF DocKeywords(doc) # <<>> /\ current_doc_score >= r.best_score
                     THEN [scored EXCEPT !.doc_i = r.doc_i + 1,
                                         !.best_score = current_doc_score,
                                         !.best_match_doc = r.doc_i]
                     ELSE [scored EXCEPT !.doc_i = r.doc_i + 1]]
        /\ UNCHANGED <<index_file, search_index, build_vars>>

\* find_best_match, lines 225-256: one iteration of the loop over the documents.
FindBestMatchDoc(h) ==
    LET r           == req[h]
        doc         == Documents(search_index)[r.doc_i]
        idf_scores  == IdfScores(search_index)
        current_doc_score == DocScore(DocKeywords(doc), r.user_keywords, idf_scores)
        matched_keywords  == DocMatched(DocKeywords(doc), r.user_keywords, idf_scores)
        scored      == IF DocKeywords(doc) = <<>> THEN r
                       ELSE [r EXCEPT !.current_doc_score = current_doc_score,
                                      !.matched_keywords = matched_keywords]
    IN  /\ r.pc = "scan"
        /\ r.doc_i <= Len(Documents(search_index))
        /\ req' = [req EXCEPT ![h] =
                     IF DocKeywords(doc) # <<>> /\ current_doc_score > r.best_score
                     THEN [scored EXCEPT !.doc_i = r.doc_i + 1,
                                         !.best_score = current_doc_score,
                                         !.best_match_doc = r.doc_i]
                     ELSE [scored EXCEPT !.doc_i = r.doc_i + 1]]
        /\ UNCHANGED <<index_file, search_index, build_vars>>

\* The end of find_best_match without the test on MINIMUM_SCORE_THRESHOLD.
FindBestMatchEndNoThreshold(h) ==
    LET r == req[h]
    IN  /\ r.pc = "scan"
        /\ r.doc_i > Len(Documents(search_index))
        /\ req' = [req EXCEPT ![h] = [r EXCEPT !.pc = "respond", !.best_doc = r.best_match_doc]]
        /\ UNCHANGED <<index_file, search_index, build_vars>>

\* The end of find_best_match with 'best_score > MINIMUM_SCORE_THRESHOLD'.
FindBestMatchEndExclusive(h) ==
    LET r == req[h]
    IN  /\ r.pc = "scan"
        /\ r.doc_i > Len(Documents(search_index))
        /\ req' = [req EXCEPT ![h] =
                     [r EXCEPT !.pc = "respond",
                               !.best_doc = IF r.best_match_doc # 0
                                               /\ r.best_score > MINIMUM_SCORE_THRESHOLD
                                            THEN r.best_match_doc ELSE 0]]
        /\ UNCHANGED <<index_file, search_index, build_vars>>

\* find_best_match, lines 258-263: the threshold on the best score.
FindBestMatchEnd(h) ==
    LET r == req[h]
    IN  /\ r.pc = "scan"
        /\ r.doc_i > Len(Documents(search_index))
        /\ req' = [req EXCEPT ![h] =
                     [r EXCEPT !.pc = "respond",
                               !.best_doc = IF r.best_match_doc # 0
                                               /\ r.best_score >= MINIMUM_SCORE_THRESHOLD
                                            THEN r.best_match_doc ELSE 0]]
        /\ UNCHANGED <<index_file, search_index, build_vars>>

\* best_doc['answers'].get(reply_lang, best_doc['answers'].get('en', ...)), line 660
ResolveAnswer(answers, reply_lang) ==
    IF reply_lang \in DOMAIN answers THEN answers[reply_lang]
    ELSE IF "en" \in DOMAIN answers THEN answers["en"]
    ELSE MSG_NO_ANSWER

\* fallback_responses.get(reply_lang, fallback_responses['en']), line 667
ResolveFallback(reply_lang) ==
    IF reply_lang \in DOMAIN fallback_responses THEN fallback_responses[reply_lang]
    ELSE fallback_responses["en"]

\* Lines 659-669: the reply for the matched document, or the fallback.  An
\* 'answers' value without .get raises, and the except clause replies.
ChatRespond(h) ==
    LET r == req[h]
        best_doc == Documents(search_index)[r.best_doc]
    IN  /\ r.pc = "respond"
        /\ req' = [req EXCEPT ![h] =
                     IF r.best_doc # 0 /\ "answers" \in DOMAIN best_doc
                     THEN IF "answers_type" \in DOMAIN best_doc
                          THEN ErrorReply(r)
                          ELSE Reply(r, ResolveAnswer(best_doc.answers, r.reply_lang),
                                     200, "answer")
                     ELSE Reply(r, ResolveFallback(r.reply_lang), 200, "fallback")]
        /\ UNCHANGED <<index_file, search_index, build_vars>>

----------------------------------------------------------------------------
(* find_best_match and detect_language_safe, called on their own           *)

\* A call of find_best_match(text): the steps FindBestMatchBegin,
\* FindBestMatchDoc and FindBestMatchEnd follow, and the call has returned
\* when the handler's pc is "respond".
CallFindBestMatch(h) ==
    /\ req[h].pc = "idle"
    /\ \E text \in Messages \ {LongText} :
          req' = [req EXCEPT ![h] = [IdleRequest EXCEPT !.pc = "match",
                                                        !.user_input = text]]
    /\ UNCHANGED <<index_file, search_index, build_vars>>

\* detect_language_safe(value) for any value: text.strip() of a value that
\* is not a str raises AttributeError inside the try of line 176, and the
\* except of line 206 returns 'en'.
detect_language_safe_any(value, outcome) ==
    IF value.type = "str" THEN detect_language_safe(value.text, outcome) ELSE "en"

\* A call of detect_language_safe(value).
CallDetectLanguage ==
    /\ call.pass = 0
    /\ \E value \in NormalizerInputs :
          LET calls == value.type = "str" /\ CallsDetector(value.text)
          IN  \E outcome \in IF calls THEN DetectorOutcomes ELSE {"none"} :
                call' = [ NoCall EXCEPT
                            !.fn = "detect_language_safe", !.arg = value,
                            !.lang = outcome, !.pass = 1,
                            !.detector_called = calls,
                            !.result = Return(detect_language_safe_any(value, outcome)) ]
    /\ UNCHANGED <<index_file, search_index, req, corpus_file, builder, app>>

----------------------------------------------------------------------------
(* Specifications                                                          *)

Step(h, bodies, outcomes) ==
    \/ \E body \in bodies : ChatValidate(h, body)
    \/ \E outcome \in outcomes \cup {"none"} : ChatDetectLanguage(h, outcome)
    \/ ChatHinglishOverride(h)
    \/ FindBestMatchBegin(h)
    \/ FindBestMatchDoc(h)
    \/ FindBestMatchEnd(h)
    \/ ChatRespond(h)

\* One request after the other, over every body.
Next == Step(1, Bodies, DetectorOutcomes)

Spec == Init /\ [][Next]_vars

\* Concurrent handlers, each serving one request after the other: a rejected
\* body and a query for which the detector answers 'hi' or raises.
ConcBodies ==
    { Message(<<>>),
      Message(<<83, 116, 97, 116, 117, 115>> (* Status *)) }

InitConc ==
    /\ Init
    /\ index_file.exists => (index_file.readable /\ index_file.obj = CustomIndex)

NextConc == \E h \in Handlers : Step(h, ConcBodies, {"hi", "raise"})

SpecConc == InitConc /\ [][NextConc]_vars

\* The questions of the corpus, sent as queries.
BuildBodies ==
    { Message(FaqShare.question.en.text),
      Message(FaqStopWords.question.en.text) }

\* The builder runs once, on any corpus file, over no index file or an older
\* one; the server starts at any moment and then serves requests.
InitBuild ==
    /\ index_file \in { IndexFile(FALSE, FALSE, FALSE, FALSE, BuilderOutput),
                        IndexFile(TRUE, FALSE, FALSE, FALSE, BuilderOutput),
                        IndexFile(TRUE, TRUE, TRUE, TRUE, NullDocuments),
                        IndexFile(TRUE, TRUE, TRUE, TRUE, CustomIndex) }
    /\ corpus_file \in CorpusFiles
    /\ builder = BuilderStart(index_file)
    /\ app = AppDown
    /\ search_index = NotLoaded
    /\ req = [h \in Handlers |-> IdleRequest]
    /\ call = NoCall

NextBuild ==
    \/ BuildRead
    \/ BuildEntry
    \/ BuildOpenOutput
    \/ BuildDump
    \/ AppStart
    \/ (app.up /\ Step(1, BuildBodies, {"en"}))

SpecBuild == InitBuild /\ [][NextBuild]_vars

\* The normalizers alone, each called once and then on its own output.
InitNormalize ==
    /\ Init
    /\ ~index_file.exists

NextNormalize ==
    \/ CallQueryNormalizer
    \/ CallBuilderNormalizer
    \/ CallAgain

SpecNormalize == InitNormalize /\ [][NextNormalize]_vars

\* find_best_match called on its own, whatever the index the server loaded.
NextMatch ==
    \/ CallFindBestMatch(1)
    \/ FindBestMatchBegin(1)
    \/ FindBestMatchDoc(1)
    \/ FindBestMatchEnd(1)

SpecMatch == Init /\ [][NextMatch]_vars

\* detect_language_safe called on its own.
NextDetect == CallDetectLanguage

SpecDetect == Init /\ [][NextDetect]_vars

----------------------------------------------------------------------------
(* Properties                                                              *)

\* The request of handler h has a reply.
Done(h) == req[h].pc = "done"

\* find_best_match has returned for the request of handler h.
Matched(h) == req[h].matcher_called /\ req[h].pc \in {"respond", "done"}

\* The final score find_best_match computes for document d and the query of
\* handler h; a document without keywords is skipped, it scores nothing.
FinalScore(h, d) ==
    LET doc == Documents(search_index)[d]
    IN IF DocKeywords(doc) = <<>> THEN 0
       ELSE DocScore(DocKeywords(doc), normalize_and_tokenize_query(req[h].user_input),
                     IdfScores(search_index))

DocIds == 1..Len(Documents(search_index))

\* C1: every request handled by chat() ends with a non-empty reply text,
\* whatever the body, the index and the detector do.
C1_EveryReplyIsText ==
    \A h \in Handlers : Done(h) => req[h].response # ""

\* C2: after the load no request changes the index: search_index stays what
\* load_search_index() returned, under any interleaving of the handlers,
\* and the reply of a request depends only on its own body (and on what
\* the detector answered for it).
C2_IndexReadOnlyAndRepliesIndependent ==
    /\ search_index = load_search_index(index_file)
    /\ \A h1, h2 \in Handlers :
          ( /\ Done(h1) /\ Done(h2)
            /\ req[h1].data = req[h2].data
            /\ req[h1].detected = req[h2].detected )
          => /\ req[h1].response = req[h2].response
             /\ req[h1].status = req[h2].status

\* Two handlers are inside the loop of find_best_match at different
\* documents, while the index is the loaded one.
C2_Witness ==
    /\ req[1].pc = "scan" /\ req[2].pc = "scan"
    /\ req[1].doc_i = 1 /\ req[2].doc_i = 3
    /\ \E h \in Handlers : req[h].best_match_doc # 0

\* C3: find_best_match returns a document only if it has the maximum final
\* score of the index and that score reaches MINIMUM_SCORE_THRESHOLD;
\* otherwise (no document, every score below the threshold) it returns None.
C3_BestMatchIsMaxAboveThreshold ==
    \A h \in Handlers :
        Matched(h) =>
            IF req[h].best_doc # 0
            THEN /\ req[h].best_doc \in DocIds
                 /\ \A d \in DocIds : FinalScore(h, req[h].best_doc) >= FinalScore(h, d)
                 /\ FinalScore(h, req[h].best_doc) >= MINIMUM_SCORE_THRESHOLD
            ELSE \A d \in DocIds : FinalScore(h, d) < MINIMUM_SCORE_THRESHOLD

\* A document is returned although another document scores too, and, for
\* another request, None is returned although a document has a positive score.
C3_Witness ==
    \E h \in Handlers :
        /\ Matched(h)
        /\ req[h].best_doc # 0
        /\ \E d \in DocIds : d # req[h].best_doc /\ FinalScore(h, d) > 0

\* C4: matching is deterministic: two runs of find_best_match on the same
\* query and the same index select the same document with the same score.
C4_MatchingDeterministic ==
    \A h1, h2 \in Handlers :
        (Matched(h1) /\ Matched(h2) /\ req[h1].user_input = req[h2].user_input)
        => /\ req[h1].best_doc = req[h2].best_doc
           /\ req[h1].best_score = req[h2].best_score

\* Two handlers have matched the same query, the detector having answered
\* differently for them, and a document was selected.
C4_Witness ==
    /\ Matched(1) /\ Matched(2)
    /\ req[1].user_input = req[2].user_input
    /\ req[1].detected # req[2].detected
    /\ req[1].best_doc # 0

\* C5: for a matched document the reply is its answer in the resolved
\* language, else its English answer, else the fixed message; resolving
\* never raises and never yields an empty string.
C5_ResolverNeverRaisesNeverEmpty ==
    \A h \in Handlers :
        ( /\ Done(h) /\ req[h].matcher_called /\ req[h].best_doc # 0
          /\ "answers" \in DOMAIN Documents(search_index)[req[h].best_doc] )
        => LET answers == Documents(search_index)[req[h].best_doc].answers
           IN /\ req[h].returned_at = "answer"
              /\ req[h].response =
                    IF req[h].reply_lang \in DOMAIN answers THEN answers[req[h].reply_lang]
                    ELSE IF "en" \in DOMAIN answers THEN answers["en"]
                    ELSE MSG_NO_ANSWER
              /\ req[h].response # ""

\* C6, as claimed: when the detector raises, the reply language is the
\* default 'en' and the matcher is still invoked.
C6_DetectorFailureRepliesInEnglish ==
    \A h \in Handlers :
        req[h].detected = "raise"
        => /\ req[h].reply_lang = "en"
           /\ Done(h) => req[h].matcher_called

\* C6, amended: when the detector raises, detect_language_safe returns 'en'
\* and the matcher is still invoked; the reply language is 'en' unless the
\* input holds a Hinglish-specific word or a Devanagari character, and then
\* it is 'hinglish'.
C6_DetectorFailureFallsBack ==
    \A h \in Handlers :
        req[h].detected = "raise"
        => /\ req[h].pc = "override" => req[h].reply_lang = "en"
           /\ req[h].pc \in {"match", "scan", "respond", "done"}
                 => req[h].reply_lang =
                        IF HinglishOverride(req[h].user_input) THEN "hinglish" ELSE "en"
           /\ Done(h) => /\ req[h].matcher_called
                          /\ req[h].returned_at = "fallback"
                                => req[h].response = fallback_responses[req[h].reply_lang]

\* The detector raised for an input with a Hinglish-specific word, and the
\* request was matched and answered in 'hinglish'.
C6_Witness ==
    \E h \in Handlers :
        /\ Done(h) /\ req[h].detected = "raise" /\ req[h].matcher_called
        /\ req[h].reply_lang = "hinglish"

\* C7: an empty or whitespace-only message is answered at once with
\* 'Please enter a question.', and neither find_best_match nor the
\* language detector runs for it.
C7_EmptyQueryAnsweredAtOnce ==
    \A h \in Handlers :
        ( /\ req[h].data.kind = "message" /\ req[h].data.is_str
          /\ \A i \in 1..Len(req[h].data.text) : IsSpace(req[h].data.text[i]) )
        => /\ Done(h)
           /\ req[h].response = MSG_EMPTY
           /\ ~req[h].matcher_called
           /\ ~req[h].detector_called

\* A whitespace-only message has been answered.
C7_Witness ==
    \E h \in Handlers :
        /\ Done(h) /\ req[h].data = Message(<<32, 9, 32>>)
        /\ req[h].response = MSG_EMPTY

\* No token of the request of handler h equals a keyword of a document or
\* has a fuzz.ratio of FUZZY_MATCH_THRESHOLD or more with one.
NoKeywordOverlap(h) ==
    \A i \in 1..Len(req[h].tokens) : \A d \in DocIds :
        LET keywords == DocKeywords(Documents(search_index)[d])
        IN \A k \in 1..Len(keywords) :
              LET ratio == fuzz_ratio(req[h].tokens[i], keywords[k])
              IN /\ req[h].tokens[i] # keywords[k]
                 /\ 100 * ratio.num < FUZZY_MATCH_THRESHOLD * ratio.den

\* C8: a query without any exact or fuzzy keyword overlap gets no match,
\* and its reply is the fallback message in the resolved language, or in
\* English when there is none in that language.
C8_NoOverlapGivesFallback ==
    \A h \in Handlers :
        (Matched(h) /\ NoKeywordOverlap(h))
        => /\ req[h].best_doc = 0
           /\ Done(h) =>
                 /\ req[h].returned_at = "fallback"
                 /\ req[h].response =
                       IF req[h].reply_lang \in {"en", "hi", "hinglish"}
                       THEN fallback_responses[req[h].reply_lang]
                       ELSE fallback_responses["en"]

\* The gibberish query has been answered with the fallback message.
C8_Witness ==
    \E h \in Handlers :
        /\ Done(h) /\ req[h].matcher_called
        /\ req[h].user_input = <<97, 115, 100, 107, 113, 119, 101, 32, 122, 120, 99, 113, 119, 101>> (* asdkqwe zxcqwe *)
        /\ NoKeywordOverlap(h)
        /\ req[h].returned_at = "fallback"

\* C9: the one-word Devanagari greeting is classified as Hindi and answered
\* as a greeting (not turned away by the nonsense filter), without a call of
\* the language detector.
C9_GreetingAnswered ==
    \A h \in Handlers :
        (Done(h) /\ req[h].data = Message(<<2344, 2350, 2360, 2381, 2340, 2375>>))
        => /\ req[h].reply_lang = "hi"
           /\ req[h].returned_at # "nonsense"
           /\ ~req[h].detector_called

TypoQuery == <<104, 111, 119, 32, 100, 111, 32, 73, 32, 100, 111, 119, 110, 108, 97, 111, 100, 32, 115, 116, 97, 116, 117, 115>> (* how do I downlaod status *)

\* C10: against the built-in index, whose first document is the save-status
\* document with keyword 'download', the query with the misspelled
\* 'downlaod' is matched to that document: the token is recovered by fuzzy
\* matching, the document outscores every other one and passes the threshold.
C10_TypoQueryMatchesSaveStatus ==
    \A h \in Handlers :
        (Matched(h) /\ req[h].user_input = TypoQuery /\ search_index = create_fallback_index)
        => LET save_status == Documents(search_index)[1]
               downlaod    == <<100, 111, 119, 110, 108, 97, 111, 100>> (* downlaod *)
               download    == <<100, 111, 119, 110, 108, 111, 97, 100>> (* download *)
           IN /\ InSeq(download, save_status.keywords)
              /\ InSeq(downlaod, req[h].user_keywords)
              /\ extractOne(downlaod, save_status.keywords).choice = download
              /\ req[h].best_doc = 1
              /\ req[h].best_score = FinalScore(h, 1)
              /\ req[h].best_score >= MINIMUM_SCORE_THRESHOLD
              /\ \A d \in DocIds \ {1} : req[h].best_score > FinalScore(h, d)
              /\ Done(h) => req[h].response \in
                                {save_status.answers[l] : l \in DOMAIN save_status.answers}

\* The misspelled query has been answered from the save-status document.
C10_Witness ==
    \E h \in Handlers :
        /\ Done(h) /\ req[h].user_input = TypoQuery
        /\ search_index = create_fallback_index
        /\ req[h].returned_at = "answer" /\ req[h].best_doc = 1

\* The index file holds what the builder wrote, and the server has loaded it.
BuiltAndLoaded ==
    builder.pc = "done" /\ app.up /\ app.loaded_from = index_file

\* The answers of the corpus entries.
CorpusAnswers ==
    UNION { { builder.faqs[k].answer[lang] : lang \in DOMAIN builder.faqs[k].answer } :
            k \in 1..Len(builder.faqs) }

\* C11: round trip: after the index is built from the corpus and loaded, a
\* query that is the exact question text of an entry returns the document
\* built from that entry, with the maximum score of the index.
C11_RoundTripReturnsEntry ==
    \A h \in Handlers : \A k \in 1..Len(builder.faqs) :
        \A lang \in DOMAIN builder.faqs[k].question :
            ( /\ BuiltAndLoaded
              /\ Matched(h)
              /\ req[h].user_input = builder.faqs[k].question[lang].text )
            => /\ req[h].best_doc # 0
               /\ "question" \in DOMAIN Documents(search_index)[req[h].best_doc]
               /\ Documents(search_index)[req[h].best_doc].question
                     = builder.faqs[k].question[lang]
               /\ \A d \in DocIds : req[h].best_score >= FinalScore(h, d)

\* C12: the file the builder writes is the index the matcher consumes: it
\* has the shape {documents, idf_scores}, load_search_index returns it, and
\* answers come from the corpus, not from the built-in index.
C12_BuiltIndexIsConsumed ==
    BuiltAndLoaded
    => /\ DOMAIN index_file.obj = {"documents", "idf_scores"}
       /\ search_index = index_file.obj
       /\ search_index # create_fallback_index
       /\ \A h \in Handlers :
             (Done(h) /\ req[h].returned_at = "answer")
             => req[h].response \in CorpusAnswers

\* The corpus file is missing or is not JSON, or an entry lacks a language
\* in 'question' or 'answer'.
BadCorpus ==
    \/ ~corpus_file.exists
    \/ ~corpus_file.parses
    \/ \E k \in 1..Len(corpus_file.faqs) : \E l \in 1..Len(BUILDER_LANGUAGES) :
          \/ BUILDER_LANGUAGES[l] \notin DOMAIN corpus_file.faqs[k].question
          \/ BUILDER_LANGUAGES[l] \notin DOMAIN corpus_file.faqs[k].answer

\* C13: the build is all-or-nothing: on a bad corpus the builder never
\* reaches the write, the index file stays as the builder found it, and
\* when the builder has stopped it has reported the error.
C13_FailedBuildLeavesIndexUntouched ==
    BadCorpus
    => /\ index_file = builder.index_before
       /\ builder.pc \in {"start", "loop", "exited", "crashed"}
       /\ builder.pc = "loop" => builder.i <= Len(builder.faqs)
       /\ builder.pc \in {"exited", "crashed"} => builder.reported # ""

\* The builder has stopped on the second entry, after building the documents
\* of the first, and the older index file is still there.
C13_Witness ==
    /\ builder.pc = "crashed" /\ builder.reported = "KeyError"
    /\ Len(builder.search_data.en) = 1
    /\ index_file.exists /\ index_file.obj = CustomIndex

\* The file is a JSON object with a 'documents' key.
HasDocuments(file) ==
    /\ file.exists /\ file.readable /\ file.parses /\ file.is_dict
    /\ "documents" \in DOMAIN file.obj

\* C14, as claimed: load_search_index returns the parsed file when it is a
\* JSON object with a 'documents' key, and the built-in index otherwise.
C14_ObjectWithDocumentsIsLoaded ==
    app.up
    => search_index = IF HasDocuments(app.loaded_from)
                      THEN app.loaded_from.obj
                      ELSE create_fallback_index

\* C14, amended: load_search_index never raises; it returns the parsed file
\* when it is a JSON object with a 'documents' key whose value has a length,
\* and exactly the built-in index otherwise, also for the file the builder
\* has opened and not yet written; never a mixture.
C14_LoadsWholeFileOrFallback ==
    app.up
    => /\ LoadTry(app.loaded_from).raised => search_index = create_fallback_index
       /\ search_index \in {app.loaded_from.obj, create_fallback_index}
       /\ search_index =
             IF HasDocuments(app.loaded_from)
                /\ "documents_type" \notin DOMAIN app.loaded_from.obj
             THEN app.loaded_from.obj
             ELSE create_fallback_index

\* The server started while the builder had the index file open, and runs on
\* the built-in index.
C14_Witness ==
    /\ app.up /\ builder.pc = "done"
    /\ app.loaded_from = IndexFile(TRUE, TRUE, FALSE, FALSE, BuilderOutput)
    /\ search_index = create_fallback_index

\* C15: normalization is idempotent: each normalizer, called on its own
\* output joined with spaces, returns that output again; and the rewrite
\* table maps each of its values to itself.
C15_NormalizationIdempotent ==
    /\ call.pass = 2 => call.again = call.result
    /\ \A p \in HINGLISH_MAPPINGS : MapToken(p[2]) = p[2]

\* A query with a rewritten token ('download' becomes 'save') was normalized
\* twice.
C15_Witness ==
    /\ call.pass = 2 /\ call.fn = "normalize_and_tokenize_query"
    /\ call.arg = Str(<<100, 111, 119, 110, 108, 111, 97, 100, 32, 99, 97, 114>> (* download car *))
    /\ call.result.value = << <<115, 97, 118, 101>> (* save *), <<99, 97, 114>> (* car *) >>

\* C16: the normalizers raise for no argument, and an argument that is no
\* str gives the empty list.
C16_NonStringGivesEmpty ==
    /\ call.pass >= 1 => /\ ~call.result.raised
                         /\ call.arg.type # "str" => call.result.value = <<>>
    /\ call.pass = 2 => ~call.again.raised

\* normalize_and_tokenize_query was called with None.
C16_Witness ==
    /\ call.pass = 1 /\ call.fn = "normalize_and_tokenize_query"
    /\ call.arg = None /\ call.result = Return(<<>>)

\* The documents the builder has built so far, of every language.
BuiltDocuments ==
    UNION { { builder.search_data[lang][k] : k \in 1..Len(builder.search_data[lang]) } :
            lang \in DOMAIN builder.search_data }

\* C17: every document built from a well-formed entry with a question text
\* that is not empty has at least one keyword, in every language.
C17_KeywordsNeverEmpty ==
    \A doc \in BuiltDocuments :
        (doc.question.type = "str" /\ doc.question.text # <<>>)
        => doc.keywords # <<>>

\* The number of documents of the written index that hold the keyword.
DocumentFrequency(index, keyword) ==
    Cardinality({ d \in 1..Len(index.documents) : InSeq(keyword, index.documents[d].keywords) })

\* C18: the builder stores in idf_scores of the index it writes a weight for
\* every keyword of every document: a positive one, and a smaller one for a
\* keyword found in more documents.
C18_BuilderStoresIdf ==
    builder.pc = "done"
    => /\ "idf_scores" \in DOMAIN index_file.obj
       /\ "documents" \in DOMAIN index_file.obj
       /\ \A d \in 1..Len(index_file.obj.documents) :
             \A n \in 1..Len(index_file.obj.documents[d].keywords) :
                LET keyword == index_file.obj.documents[d].keywords[n]
                IN /\ keyword \in DOMAIN index_file.obj.idf_scores
                   /\ index_file.obj.idf_scores[keyword] > 0
                   /\ \A other \in DOMAIN index_file.obj.idf_scores :
                         DocumentFrequency(index_file.obj, keyword)
                            < DocumentFrequency(index_file.obj, other)
                         => index_file.obj.idf_scores[keyword]
                               > index_file.obj.idf_scores[other]

\* The greatest final score of the documents for the query of handler h.
MaxFinalScore(h) ==
    IF DocIds = {} THEN 0
    ELSE CHOOSE s \in { FinalScore(h, d) : d \in DocIds } :
            \A d \in DocIds : FinalScore(h, d) <= s

\* C19: the threshold is inclusive: when the best final score is exactly
\* MINIMUM_SCORE_THRESHOLD a document with that score is returned, and when
\* it is below, None is returned.
C19_ThresholdInclusive ==
    \A h \in Handlers :
        Matched(h) =>
            /\ MaxFinalScore(h) = MINIMUM_SCORE_THRESHOLD
                  => /\ req[h].best_doc # 0
                     /\ FinalScore(h, req[h].best_doc) = MINIMUM_SCORE_THRESHOLD
            /\ MaxFinalScore(h) < MINIMUM_SCORE_THRESHOLD => req[h].best_doc = 0

\* A document that scores exactly the threshold has been returned.
C19_Witness ==
    \E h \in Handlers :
        /\ Matched(h) /\ req[h].best_doc # 0
        /\ req[h].best_score = MINIMUM_SCORE_THRESHOLD
        /\ MaxFinalScore(h) = MINIMUM_SCORE_THRESHOLD

\* C20: ties go to the first document: during the loop the best document is
\* the first of the documents seen that has the greatest score, so a later
\* one replaces it only with a strictly greater score; and the document
\* returned is the first with the maximum score.
C20_FirstMaximalDocumentWins ==
    \A h \in Handlers :
        /\ (req[h].pc = "scan" /\ req[h].best_match_doc # 0)
              => /\ FinalScore(h, req[h].best_match_doc) = req[h].best_score
                 /\ \A d \in 1..(req[h].doc_i - 1) :
                       /\ FinalScore(h, d) <= req[h].best_score
                       /\ d < req[h].best_match_doc => FinalScore(h, d) < req[h].best_score
        /\ (Matched(h) /\ req[h].best_doc # 0)
              => \A d \in DocIds :
                    FinalScore(h, d) = FinalScore(h, req[h].best_doc) => d >= req[h].best_doc

\* A document has been returned although a later document has the same score.
C20_Witness ==
    \E h \in Handlers :
        /\ Matched(h) /\ req[h].best_doc # 0
        /\ \E d \in DocIds :
              d > req[h].best_doc /\ FinalScore(h, d) = FinalScore(h, req[h].best_doc)


\* C21: when the query normalizes to no token, find_best_match returns None
\* at once: no document has been read or scored when it returns, and the
\* scan of the documents is never entered.
C21_EmptyQueryReturnsAtOnce ==
    \A h \in Handlers :
        (req[h].matcher_called
         /\ normalize_and_tokenize_query(req[h].user_input) = <<>>)
        => /\ req[h].pc = "respond"
           /\ req[h].best_doc = 0
           /\ ~req[h].documents_read
           /\ req[h].doc_i = 0

\* find_best_match has returned for a query without tokens while the index
\* holds documents.
C21_Witness ==
    /\ req[1].matcher_called
    /\ req[1].pc = "respond"
    /\ req[1].user_input # <<>>
    /\ req[1].user_keywords = <<>>
    /\ Documents(search_index) # <<>>

\* C29: detect_language_safe never raises and returns one of LANGUAGES; for
\* text whose stripped length is below 3 it returns 'en', and when the
\* Hinglish heuristic fires it returns 'hinglish', in both cases without
\* calling the external detector.
C29_DetectLanguageSafeIsTotal ==
    call.fn = "detect_language_safe"
    => /\ ~call.result.raised
       /\ InSeq(call.result.value, LANGUAGES)
       /\ call.arg.type = "str"
          => /\ Len(Strip(call.arg.text)) < 3
                => (call.result.value = "en" /\ ~call.detector_called)
             /\ (Len(Strip(call.arg.text)) >= 3 /\ HinglishHeuristic(call.arg.text))
                => (call.result.value = "hinglish" /\ ~call.detector_called)

\* The heuristic fired for a text of mixed words and the detector was not
\* called.
C29_Witness ==
    /\ call.fn = "detect_language_safe"
    /\ call.arg.type = "str"
    /\ Len(Strip(call.arg.text)) >= 3
    /\ HinglishHeuristic(call.arg.text)
    /\ call.result = Return("hinglish")
    /\ ~call.detector_called


\* The document find_best_match scored last for the request of handler h
\* (0 when it has scored none): the locals current_doc_score and
\* matched_keywords of the request are those of this document.
LastScored(h) ==
    LET scored == { d \in DocIds : d < req[h].doc_i
                                   /\ DocKeywords(Documents(search_index)[d]) # <<>> }
    IN IF req[h].documents_read /\ scored # {}
       THEN CHOOSE d \in scored : \A e \in scored : e <= d
       ELSE 0

\* The highest similarity, as a fraction of 100, between a word and the
\* keywords of a document.
BestSimilarity(word, keywords) ==
    LET ratios == { fuzz_ratio(word, keywords[k]) : k \in 1..Len(keywords) }
    IN CHOOSE r \in ratios : \A q \in ratios : ~RatioGreater(q, r)

\* The first keyword of that similarity.
BestCandidate(word, keywords) ==
    LET best == BestSimilarity(word, keywords)
        k    == CHOOSE k \in 1..Len(keywords) :
                   /\ fuzz_ratio(word, keywords[k]).num * best.den
                        = best.num * fuzz_ratio(word, keywords[k]).den
                   /\ \A j \in 1..(k - 1) :
                         RatioGreater(best, fuzz_ratio(word, keywords[j]))
    IN keywords[k]

\* The weight of a keyword: its idf score, or the given default, doubled
\* for an action keyword.
Weight(idf_scores, keyword, default) ==
    (IF keyword \in DOMAIN idf_scores THEN idf_scores[keyword] ELSE default)
    * (IF keyword \in ACTION_KEYWORDS THEN ACTION_WEIGHT ELSE 1)

\* The query token at position i is matched by a document's keywords: it is
\* one of them, or its best candidate reaches the threshold.
TokenAccepted(tokens, i, keywords) ==
    \/ InSeq(tokens[i], keywords)
    \/ LET best == BestSimilarity(tokens[i], keywords)
       IN 100 * best.num >= FUZZY_MATCH_THRESHOLD * best.den

\* What the token at position i adds to a document's running score, with
\* the given default weights of an exact and of a fuzzy match.
TokenScore(tokens, i, keywords, idf_scores, default_exact, default_fuzzy) ==
    IF InSeq(tokens[i], keywords)
    THEN Weight(idf_scores, tokens[i], default_exact)
    ELSE IF TokenAccepted(tokens, i, keywords)
    THEN LET best == BestSimilarity(tokens[i], keywords)
         IN (best.num * Weight(idf_scores, BestCandidate(tokens[i], keywords),
                               default_fuzzy)) \div best.den
    ELSE 0

RECURSIVE SumTo(_, _)
SumTo(f, n) == IF n = 0 THEN 0 ELSE f[n] + SumTo(f, n - 1)

\* The score of a document after the coverage bonus, from what its tokens
\* add and its coverage count.
WithBonus(sum, count) == IF count > 0 THEN (sum * (5 + (count - 1))) \div 5 ELSE sum

\* C22: for the document scored last and each query token that is not one
\* of its keywords, the best fuzzy candidate counts only if its similarity
\* is at least FUZZY_MATCH_THRESHOLD; an accepted candidate adds
\* similarity/100 times the importance of the matched keyword to the score
\* and one to the coverage count, a rejected one adds nothing to either.
C22_FuzzyAcceptanceAndScore ==
    \A h \in Handlers :
        LastScored(h) # 0 =>
            LET keywords == DocKeywords(Documents(search_index)[LastScored(h)])
                tokens   == req[h].user_keywords
                idf      == IdfScores(search_index)
                adds     == [i \in 1..Len(tokens) |->
                               TokenScore(tokens, i, keywords, idf,
                                          IDF_DEFAULT_EXACT, IDF_DEFAULT_FUZZY)]
                counts   == [i \in 1..Len(tokens) |->
                               IF TokenAccepted(tokens, i, keywords) THEN 1 ELSE 0]
            IN  /\ req[h].matched_keywords = SumTo(counts, Len(tokens))
                /\ req[h].current_doc_score =
                      WithBonus(SumTo(adds, Len(tokens)), req[h].matched_keywords)

\* A document has been scored for a query with one token accepted as a
\* fuzzy match and one token rejected.
C22_Witness ==
    /\ LastScored(1) # 0
    /\ LET keywords == DocKeywords(Documents(search_index)[LastScored(1)])
           tokens   == req[1].user_keywords
       IN  /\ \E i \in 1..Len(tokens) : /\ ~InSeq(tokens[i], keywords)
                                        /\ TokenAccepted(tokens, i, keywords)
           /\ \E i \in 1..Len(tokens) : ~TokenAccepted(tokens, i, keywords)
    /\ req[1].matched_keywords < Len(req[1].user_keywords)
    /\ req[1].current_doc_score > 0

\* Every keyword the query tokens matched in the document scored last is
\* absent from idf_scores, and at least one token matched.
AllMatchesOutOfVocabulary(h) ==
    /\ LastScored(h) # 0
    /\ LET keywords == DocKeywords(Documents(search_index)[LastScored(h)])
           tokens   == req[h].user_keywords
           idf      == IdfScores(search_index)
       IN  /\ \E i \in 1..Len(tokens) : TokenAccepted(tokens, i, keywords)
           /\ \A i \in 1..Len(tokens) :
                 TokenAccepted(tokens, i, keywords)
                 => IF InSeq(tokens[i], keywords)
                    THEN tokens[i] \notin DOMAIN idf
                    ELSE BestCandidate(tokens[i], keywords) \notin DOMAIN idf

\* C23: a matched keyword absent from idf_scores is weighted with one fixed
\* default that is not zero, the same for an exact and for a fuzzy match:
\* the score of a document whose matched keywords are all out of vocabulary
\* is the one a single default gives.
C23_OneDefaultWeight ==
    \A h \in Handlers :
        AllMatchesOutOfVocabulary(h) =>
            \E default \in {IDF_DEFAULT_EXACT, IDF_DEFAULT_FUZZY} :
                LET keywords == DocKeywords(Documents(search_index)[LastScored(h)])
                    tokens   == req[h].user_keywords
                    adds     == [i \in 1..Len(tokens) |->
                                   TokenScore(tokens, i, keywords,
                                              IdfScores(search_index), default, default)]
                IN  /\ default > 0
                    /\ req[h].current_doc_score =
                          WithBonus(SumTo(adds, Len(tokens)), req[h].matched_keywords)

\* C24: the coverage count of the document scored last is the number of
\* distinct query tokens with an accepted match.
C24_CoverageCountsDistinctTokens ==
    \A h \in Handlers :
        LastScored(h) # 0 =>
            LET keywords == DocKeywords(Documents(search_index)[LastScored(h)])
                tokens   == req[h].user_keywords
            IN req[h].matched_keywords =
                  Cardinality({ tokens[i] : i \in { j \in 1..Len(tokens) :
                                                      TokenAccepted(tokens, j, keywords) } })


\* C25: the detector is called on the text as chat() received it, stripped
\* but not normalized, and what detect_language_safe returns after the call
\* is the detector's result if it is one of LANGUAGES and 'en' otherwise.
C25_DetectorOnRawTextSupportedOnly ==
    \A h \in Handlers :
        req[h].detector_called =>
            /\ req[h].detector_arg = Strip(req[h].data.text)
            /\ req[h].pc = "override"
               => req[h].reply_lang = IF InSeq(req[h].detected, LANGUAGES)
                                      THEN req[h].detected ELSE "en"

\* The detector was given a text with a capital letter and answered with a
\* language that is not supported.
C25_Witness ==
    /\ req[1].pc = "override"
    /\ req[1].detector_called
    /\ req[1].detector_arg # Lower(req[1].detector_arg)
    /\ req[1].detector_arg # Join(normalize_and_tokenize_query(req[1].detector_arg))
    /\ req[1].detected = "fr"
    /\ req[1].reply_lang = "en"

\* The check of chat() that stops a request body, "none" when all pass and
\* "error" when get_json raises.
StoppedAt(body) ==
    LET text == Strip(body.text)
    IN  IF body.kind = "malformed" THEN "error"
        ELSE IF body.kind # "message" THEN "invalid"
        ELSE IF ~body.is_str THEN "not_text"
        ELSE IF text = <<>> THEN "empty"
        ELSE IF Len(text) > MAX_INPUT_LENGTH THEN "too_long"
        ELSE IF is_nonsensical_query(text, normalize_and_tokenize_query(text)) THEN "nonsense"
        ELSE "none"

FixedReply(check) ==
    CASE check = "invalid"  -> MSG_INVALID
      [] check = "not_text" -> MSG_NOT_TEXT
      [] check = "empty"    -> MSG_EMPTY
      [] check = "too_long" -> MSG_TOO_LONG
      [] check = "nonsense" -> MSG_NONSENSE

Checks == {"invalid", "not_text", "empty", "too_long", "nonsense"}

\* C27: the checks of chat() run in the order missing message, not a
\* string, empty, longer than 200 characters, nonsensical; a request one of
\* them stops gets that check's reply, and neither the detector nor the
\* matcher is invoked for it; a request that passes has its language
\* resolved before the matcher is called.
C27_ChecksInFixedOrder ==
    \A h \in Handlers :
        req[h].pc # "idle" =>
            LET stop == StoppedAt(req[h].data)
            IN  /\ stop \in Checks
                   => /\ req[h].pc = "done"
                      /\ req[h].returned_at = stop
                      /\ req[h].response = FixedReply(stop)
                      /\ ~req[h].detector_called
                      /\ ~req[h].matcher_called
                /\ stop = "none" => req[h].returned_at \notin Checks
                /\ (req[h].matcher_called \/ req[h].pc = "match")
                   => req[h].reply_lang \in {"en", "hi", "id", "hinglish"}
                /\ req[h].pc \in {"detect", "override"} => ~req[h].matcher_called

\* A text that is both too long and nonsensical (one character repeated)
\* was stopped by the length check.
C27_Witness ==
    /\ req[1].pc = "done"
    /\ req[1].data = Message(LongText)
    /\ SPAM_PATTERNS(Lower(LongText))
    /\ req[1].returned_at = "too_long"
    /\ ~req[1].detector_called
    /\ ~req[1].matcher_called

\* A Hinglish-specific word stands in the text as a whole token: between
\* two characters that are not word characters, or the ends of the text.
HasHinglishWord(text) ==
    \E i \in 1..Len(text) : \E j \in i..Len(text) :
        /\ Lower(SubSeq(text, i, j)) \in hinglish_specific_words
        /\ i = 1 \/ ~IsWordChar(text[i - 1])
        /\ j = Len(text) \/ ~IsWordChar(text[j + 1])

\* The language of the request of handler h is resolved.
LanguageResolved(h) ==
    \/ req[h].pc \in {"match", "scan", "respond"}
    \/ req[h].pc = "done" /\ req[h].returned_at \in {"answer", "fallback"}

\* C28: once the language of a request is resolved it is 'hinglish' when
\* the input has a Devanagari character or a Hinglish-specific word as a
\* whole token, whatever the detector returned, and otherwise the value
\* detect_language_safe returned.
C28_ReplyLanguage ==
    \A h \in Handlers :
        LanguageResolved(h) =>
            req[h].reply_lang =
                IF \/ \E i \in 1..Len(req[h].user_input) : IsDevanagari(req[h].user_input[i])
                   \/ HasHinglishWord(req[h].user_input)
                THEN "hinglish"
                ELSE detect_language_safe(req[h].user_input, req[h].detected)

\* The detector returned 'hi' for a text with a Hinglish-specific word and
\* the reply language is 'hinglish'.
C28_Witness ==
    /\ LanguageResolved(1)
    /\ req[1].detector_called
    /\ req[1].detected = "hi"
    /\ HasHinglishWord(req[1].user_input)
    /\ req[1].reply_lang = "hinglish"


\* The words of the canonical question and of the paraphrases of a corpus
\* entry in a language: lowered, cleaned and split, stop words included.
PhraseWords(faq_item, lang) ==
    LET all_phrases == <<faq_item.question[lang]>> \o Paraphrases(faq_item, lang)
        words(k)    == normalize_and_tokenize(all_phrases[k], "none")
    IN UNION { { words(k)[n] : n \in 1..Len(words(k)) } : k \in 1..Len(all_phrases) }

\* C26: the keyword list of the document built from an entry for a language
\* holds every word of the question and the paraphrases of that language
\* that is not a stop word of the language, once each, and nothing else;
\* the lists are written to the index file as they were built.
C26_KeywordsAreThePhraseTokens ==
    /\ \A l \in 1..Len(BUILDER_LANGUAGES) :
          LET lang == BUILDER_LANGUAGES[l]
          IN \A k \in 1..Len(builder.search_data[lang]) :
                LET keywords == builder.search_data[lang][k].keywords
                    words    == PhraseWords(builder.faqs[k], lang)
                IN  /\ \A i, j \in 1..Len(keywords) : i # j => keywords[i] # keywords[j]
                    /\ \A i \in 1..Len(keywords) :
                          /\ keywords[i] \notin STOP_WORDS[lang]
                          /\ keywords[i] \in words
                    /\ \A word \in words \ STOP_WORDS[lang] : InSeq(word, keywords)
    /\ builder.pc = "done" => index_file.obj = builder.search_data

\* The index is written, and the English keywords of an entry whose question
\* and paraphrase share words and hold stop words are the two words left.
C26_Witness ==
    /\ builder.pc = "done"
    /\ index_file.obj = builder.search_data
    /\ Len(builder.faqs) >= 1
    /\ Len(builder.search_data.en) >= 1
    /\ builder.faqs[1] = FaqShare
    /\ PhraseWords(FaqShare, "en") \cap STOP_WORDS.en # {}
    /\ Len(builder.search_data.en[1].keywords) = 2
    /\ InSeq(<<115, 104, 97, 114, 101>> (* share *), builder.search_data.en[1].keywords)
    /\ InSeq(<<115, 116, 97, 116, 117, 115>> (* status *), builder.search_data.en[1].keywords)

\* C30: every token normalize_and_tokenize_query returned for a request, as
\* the nonsense filter and the matcher receive it, is lowercase, has at
\* least 2 characters and is not a key of HINGLISH_MAPPINGS that maps to
\* another word: 'download', 'bhej' and 'kaise' never arrive as tokens.
C30_TokensAreMappedLowercaseWords ==
    \A h \in Handlers :
        \A tokens \in {req[h].tokens, req[h].user_keywords} :
            \A i \in 1..Len(tokens) :
                /\ Lower(tokens[i]) = tokens[i]
                /\ Len(tokens[i]) >= 2
                /\ \A p \in HINGLISH_MAPPINGS : p[1] = tokens[i] => p[2] = tokens[i]
                /\ tokens[i] \notin {<<100, 111, 119, 110, 108, 111, 97, 100>> (* download *), <<98, 104, 101, 106>> (* bhej *), <<107, 97, 105, 115, 101>> (* kaise *)}

\* The matcher received 'how' for a text that holds 'kaise'.
C30_Witness ==
    /\ req[1].matcher_called
    /\ Contains(req[1].user_input, <<107, 97, 105, 115, 101>> (* kaise *))
    /\ InSeq(<<104, 111, 119>> (* how *), req[1].user_keywords)
    /\ ~InSeq(<<107, 97, 105, 115, 101>> (* kaise *), req[1].user_keywords)

====
